---- MODULE Spec2Model ----
(***************************************************************************)
(* A model of the website audit service of the LLMO backend               *)
(* (apps/backend/services/web_scraper.py, class WebScraperService): the    *)
(* analyzers, the four component scores, the overall score, the            *)
(* recommendation rules and audit_website itself; and of the endpoint       *)
(* POST /audit/visibility of apps/backend/main.py with the cache and       *)
(* database services it calls.                                             *)
(***************************************************************************)
EXTENDS Integers, Sequences, FiniteSets, TLC

VARIABLES pc, fn, arg, ret, services

vars == <<pc, fn, arg, ret, services>>

(***************************************************************************)
(* IEEE-754 binary64 arithmetic (round-half-even) on non-negative values,  *)
(* as CPython's float uses it.  A float is held exactly as a fixed-point   *)
(* natural number of units 2^-75, written in limbs of 15 bits, least       *)
(* significant limb first, without high zero limbs (<<>> is 0.0).          *)
(***************************************************************************)
B == 2 ^ 15
FracLimbs == 5

Limb(a, i) == IF i <= Len(a) THEN a[i] ELSE 0
Zeros(n) == [i \in 1..n |-> 0]
Top(S) == CHOOSE i \in S : \A j \in S : j <= i

\* without the high zero limbs
Trim(a) == SubSeq(a, 1, Top({0} \cup {i \in DOMAIN a : a[i] # 0}))

\* st = <<i, carry, limbs below i of the sum>>
RECURSIVE BAddFrom(_, _, _)
BAddFrom(a, b, st) ==
    IF st[1] > Len(a) /\ st[1] > Len(b)
    THEN IF st[2] = 0 THEN st[3] ELSE Append(st[3], st[2])
    ELSE LET s == Limb(a, st[1]) + Limb(b, st[1]) + st[2]
         IN  BAddFrom(a, b, <<st[1] + 1, s \div B, Append(st[3], s % B)>>)
BAdd(a, b) == Trim(BAddFrom(a, b, <<1, 0, <<>>>>))

\* a - b for a >= b; st = <<i, borrow, limbs below i of the difference>>
RECURSIVE BSubFrom(_, _, _)
BSubFrom(a, b, st) ==
    IF st[1] > Len(a) THEN Trim(st[3])
    ELSE LET s == a[st[1]] - Limb(b, st[1]) - st[2]
         IN  BSubFrom(a, b, <<st[1] + 1, IF s < 0 THEN 1 ELSE 0,
                              Append(st[3], IF s < 0 THEN s + B ELSE s)>>)
BSub(a, b) == BSubFrom(a, b, <<1, 0, <<>>>>)

\* -1, 0, 1 as a < b, a = b, a > b (both without high zero limbs)
BCmpAt(a, b, differ) ==
    IF differ = {} THEN 0
    ELSE IF a[Top(differ)] > b[Top(differ)] THEN 1 ELSE -1
BCmp(a, b) ==
    IF Len(a) > Len(b) THEN 1
    ELSE IF Len(a) < Len(b) THEN -1
    ELSE BCmpAt(a, b, {i \in DOMAIN a : a[i] # b[i]})

\* a * k for 0 <= k < B; st = <<i, carry, limbs below i of the product>>
RECURSIVE BMulSmallFrom(_, _, _)
BMulSmallFrom(a, k, st) ==
    IF st[1] > Len(a)
    THEN IF st[2] = 0 THEN st[3] ELSE Append(st[3], st[2])
    ELSE LET s == a[st[1]] * k + st[2]
         IN  BMulSmallFrom(a, k, <<st[1] + 1, s \div B, Append(st[3], s % B)>>)
BMulSmall(a, k) == IF k = 0 THEN <<>>
                   ELSE IF k = 1 THEN a
                   ELSE BMulSmallFrom(a, k, <<1, 0, <<>>>>)

\* st = <<i, acc>>: acc is a[1..i-1] * b
RECURSIVE BMulFrom(_, _, _)
BMulFrom(a, b, st) ==
    IF st[1] > Len(a) THEN st[2]
    ELSE BMulFrom(a, b, <<st[1] + 1,
                          IF a[st[1]] = 0 THEN st[2]
                          ELSE BAdd(st[2], Zeros(st[1] - 1) \o BMulSmall(b, a[st[1]]))>>)
\* the number of zero limbs below the lowest non-zero limb of a # 0
LowZeros(a) == (CHOOSE i \in DOMAIN a : a[i] # 0 /\ \A j \in 1..(i - 1) : a[j] = 0) - 1
BMulShifted(a, b, z) == Zeros(z) \o BMulFrom(SubSeq(a, z + 1, Len(a)), b, <<1, <<>>>>)
\* a * b; the low zero limbs of a are multiplied in as a shift
BMul(a, b) ==
    IF a = <<>> \/ b = <<>> THEN <<>> ELSE BMulShifted(a, b, LowZeros(a))

\* One step of long division: the quotient digit of r by v, where r < v * B
\* and the top limb of v is at least B / 2 (or v is one limb): the estimate q
\* from the top limbs is at most 2 too large.
DigitFrom(r, v, q) ==
    IF Len(v) = 1 \/ BCmp(BMulSmall(v, q), r) # 1 THEN q
    ELSE IF BCmp(BMulSmall(v, q - 1), r) # 1 THEN q - 1
    ELSE q - 2
Digit(r, v) ==
    IF BCmp(r, v) = -1 THEN 0
    ELSE DigitFrom(r, v,
                   IF (Limb(r, Len(v) + 1) * B + r[Len(v)]) \div v[Len(v)] > B - 1
                   THEN B - 1
                   ELSE (Limb(r, Len(v) + 1) * B + r[Len(v)]) \div v[Len(v)])

\* st = <<i, r, q>>: the limbs above i are divided, r is the remainder and q
\* the quotient so far; r1 is the remainder with limb i brought down, d the
\* next digit
RECURSIVE BDivFrom(_, _, _)
BDivDigit(u, v, st, r1, d) ==
    BDivFrom(u, v, <<st[1] - 1, BSub(r1, BMulSmall(v, d)), <<d>> \o st[3]>>)
BDivDown(u, v, st, r1) == BDivDigit(u, v, st, r1, Digit(r1, v))
BDivFrom(u, v, st) ==
    IF st[1] = 0 THEN <<Trim(st[3]), st[2]>>
    ELSE BDivDown(u, v, st, Trim(<<u[st[1]]>> \o st[2]))
\* Long division of us by vs, the top limb of vs being B / 2 or more:
\* <<quotient, remainder>>.  The top Len(vs) - 1 limbs of us are less than vs
\* and start as the remainder; the other limbs are brought down.
BDivScaled(us, vs) ==
    IF Len(us) < Len(vs) THEN BDivFrom(us, vs, <<0, us, <<>>>>)
    ELSE BDivFrom(us, vs, <<Len(us) - Len(vs) + 1,
                            SubSeq(us, Len(us) - Len(vs) + 2, Len(us)), <<>>>>)
\* Long division of u by v (v # 0): <<quotient, remainder * s>>, s the scaling
\* that brings the top limb of v to B / 2 or more.
BDivBy(u, v, s) == BDivScaled(BMulSmall(u, s), BMulSmall(v, s))
BDiv(u, v) == BDivBy(u, v, B \div (v[Len(v)] + 1))

BitLen(x) == CHOOSE n \in 0..15 : x < 2 ^ n /\ (n = 0 \/ x >= 2 ^ (n - 1))
\* the number of significant bits of a # 0
BitCount(a) == 15 * (Len(a) - 1) + BitLen(a[Len(a)])
\* bit n of a (bit 0 is the lowest)
BitAt(a, n) == (a[(n \div 15) + 1] \div (2 ^ (n % 15))) % 2 = 1
\* some bit of a below bit n is set
BitsBelow(a, n) == \/ a[(n \div 15) + 1] % (2 ^ (n % 15)) # 0
                   \/ \E i \in 1..(n \div 15) : a[i] # 0
\* a with the bits below bit n cleared
CutBelow(a, n) ==
    [i \in 1..Len(a) |-> IF i < (n \div 15) + 1 THEN 0
                         ELSE IF i = (n \div 15) + 1 THEN a[i] - (a[i] % (2 ^ (n % 15)))
                         ELSE a[i]]
\* a rounded to a multiple of 2^p, ties to even
RoundAt(a, sticky, p) ==
    IF p <= 0 THEN a
    ELSE IF BitAt(a, p - 1) /\ (sticky \/ BitsBelow(a, p - 1) \/ BitAt(a, p))
    THEN BAdd(CutBelow(a, p), Append(Zeros(p \div 15), 2 ^ (p % 15)))
    ELSE CutBelow(a, p)
\* Round a natural number to 53 significant bits, ties to even.  sticky
\* says that the exact value lies strictly above a (by less than one unit).
Round53(a, sticky) == IF a = <<>> THEN a ELSE RoundAt(a, sticky, BitCount(a) - 53)

FromInt(k) == IF k = 0 THEN <<>> ELSE Append(Zeros(FracLimbs), k)
FAdd(x, y) == Round53(BAdd(x, y), FALSE)
FSub(x, y) == Round53(BSub(x, y), FALSE)
\* the product p of two fixed-point numbers brought back to units of 2^-75
FMulUnits(p) == IF p = <<>> THEN p ELSE SubSeq(p, FracLimbs + 1, Len(p))
FMul(x, y) == FMulUnits(Round53(BMul(x, y), FALSE))
\* x / y; z low zero limbs of y cancel against the scaling
FDivRound(qr) == Round53(qr[1], qr[2] # <<>>)
FDivBy(x, y, z) == FDivRound(BDiv(Zeros(FracLimbs - z) \o x, SubSeq(y, z + 1, Len(y))))
FDiv(x, y) ==
    IF x = <<>> THEN x
    ELSE FDivBy(x, y, IF LowZeros(y) < FracLimbs THEN LowZeros(y) ELSE FracLimbs)
FLt(x, y) == BCmp(x, y) = -1
FLe(x, y) == BCmp(x, y) # 1
FMin(x, y) == IF FLt(y, x) THEN y ELSE x
FMax(x, y) == IF FLt(x, y) THEN y ELSE x
\* the decimal literal n/d as the parser reads it (the nearest double)
Lit(n, d) == FDiv(FromInt(n), FromInt(d))
\* int(x): truncation
FInt(x) == Limb(x, FracLimbs + 1)
\* round(x): nearest integer, ties to even, of the exact value of x; k is
\* int(x) and c compares the fraction with one half
FRoundFrom(k, c) ==
    IF c = 1 THEN k + 1
    ELSE IF c = -1 THEN k
    ELSE IF k % 2 = 0 THEN k ELSE k + 1
FRound(x) ==
    FRoundFrom(Limb(x, FracLimbs + 1),
               BCmp(Trim(SubSeq(x \o Zeros(FracLimbs), 1, FracLimbs)),
                    Append(Zeros(FracLimbs - 1), B \div 2)))

F_001 == Lit(1, 100)
F_002 == Lit(2, 100)
F_004 == Lit(4, 100)
F_005 == Lit(5, 100)
F_01 == Lit(1, 10)
F_015 == Lit(15, 100)
F_02 == Lit(2, 10)
F_03 == Lit(3, 10)
F_04 == Lit(4, 10)
F_05 == Lit(5, 10)
F_06 == Lit(6, 10)
F_07 == Lit(7, 10)
F_08 == Lit(8, 10)

(***************************************************************************)
(* The page as BeautifulSoup presents it to the analyzers.  A page is a    *)
(* record of the features the analyzers read:                              *)
(*   meta   the <title>, <meta> and <link rel=canonical> tags              *)
(*   content, tech, scripts: see the analyzers below                       *)
(* Text is kept by the measures the code takes of it (len, truthiness,     *)
(* substring and regex tests).                                             *)
(***************************************************************************)

\* int(s) of a tag's content: the number, or -1 where int() raises ValueError
int_of(s) == CASE s = "1200" -> 1200 [] s = "630" -> 630 [] s = "600" -> 600
               [] OTHER -> -1

(***************************************************************************)
(* Parsed JSON (json.loads).  A value is a record [k, s, kv, el]:          *)
(*   k   "str", "num", "null", "dict" or "list"                           *)
(*   s   a string's text, as the sequence of its ', '-separated parts     *)
(*       (so "Organization" is <<"Organization">> and ', '.join and        *)
(*       split(', ') are concatenation and the parts)                      *)
(*   kv  a dict's items in insertion order, each <<key, value>>            *)
(*   el  a list's elements                                                 *)
(* A property path "a.b" is the sequence <<"a", "b">>.  A Python dict that *)
(* the code builds is a sequence of <<key, value>> in insertion order.     *)
(***************************************************************************)
JStr(parts) == [k |-> "str", s |-> parts, kv |-> <<>>, el |-> <<>>]
JText(a) == JStr(<<a>>)
JNum == [k |-> "num", s |-> <<>>, kv |-> <<>>, el |-> <<>>]
JNull == [k |-> "null", s |-> <<>>, kv |-> <<>>, el |-> <<>>]
JDict(pairs) == [k |-> "dict", s |-> <<>>, kv |-> pairs, el |-> <<>>]
JList(items) == [k |-> "list", s |-> <<>>, kv |-> <<>>, el |-> items]

IsDict(v) == v.k = "dict"
IsList(v) == v.k = "list"
IsStr(v) == v.k = "str"
Keys(d) == {d.kv[i][1] : i \in DOMAIN d.kv}
Has(d, key) == key \in Keys(d)
Get(d, key) == d.kv[CHOOSE i \in DOMAIN d.kv : d.kv[i][1] = key][2]
\* bool(v)
Truthy(v) == CASE v.k = "str" -> v.s # <<"">>
               [] v.k = "num" -> TRUE
               [] v.k = "null" -> FALSE
               [] v.k = "dict" -> v.kv # <<>>
               [] v.k = "list" -> v.el # <<>>
\* key.startswith('@')
AtKeys == {"@type", "@id", "@graph", "@context"}
HasGraph(v) == IsDict(v) /\ Has(v, "@graph") /\ IsList(Get(v, "@graph"))

\* dict[key] = value on an insertion-ordered dict
DictSet(d, key, value) ==
    IF \E i \in DOMAIN d : d[i][1] = key
    THEN [i \in DOMAIN d |-> IF d[i][1] = key THEN <<key, value>> ELSE d[i]]
    ELSE Append(d, <<key, value>>)
DictKeys(d) == {d[i][1] : i \in DOMAIN d}
DictGet(d, key) == d[CHOOSE i \in DOMAIN d : d[i][1] = key][2]

RECURSIVE SeqSum(_)
SeqSum(q) == IF q = <<>> THEN 0 ELSE q[1] + SeqSum(Tail(q))
RECURSIVE SeqCat(_)
SeqCat(q) == IF q = <<>> THEN <<>> ELSE q[1] \o SeqCat(Tail(q))
RECURSIVE SeqUnion(_)
SeqUnion(q) == IF q = <<>> THEN {} ELSE q[1] \cup SeqUnion(Tail(q))
\* sum(floats): 0 + x1 + x2 + ... in order
\* st = <<i, acc>>
RECURSIVE FSumFrom(_, _)
FSumFrom(q, st) == IF st[1] > Len(q) THEN st[2]
                   ELSE FSumFrom(q, <<st[1] + 1, FAdd(st[2], q[st[1]])>>)
FSum(q) == FSumFrom(q, <<1, <<>>>>)

(***************************************************************************)
(* _extract_schema_type: [raise, value], value a JSON value (JNull: None)  *)
(***************************************************************************)
extract_schema_type(schema_data) ==
    IF ~IsDict(schema_data) THEN [raise |-> FALSE, value |-> JNull]
    ELSE IF Has(schema_data, "@type")
         THEN [raise |-> FALSE, value |-> Get(schema_data, "@type")]
    ELSE IF HasGraph(schema_data)
         THEN LET g == Get(schema_data, "@graph").el
                  types == SelectSeq(g, LAMBDA item : IsDict(item) /\ Has(item, "@type"))
              IN  IF \E i \in DOMAIN types : ~IsStr(Get(types[i], "@type"))
                  THEN [raise |-> TRUE, value |-> JNull]   \* ', '.join: TypeError
                  ELSE IF types = <<>> THEN [raise |-> FALSE, value |-> JNull]
                  ELSE [raise |-> FALSE,
                        value |-> JStr(SeqCat([i \in DOMAIN types |->
                                                  Get(types[i], "@type").s]))]
    ELSE [raise |-> FALSE, value |-> JNull]

(***************************************************************************)
(* _extract_schema_properties: the set of property paths of one block      *)
(***************************************************************************)
RECURSIVE process_dict(_, _)
process_dict(data, prefix) ==
    IF ~IsDict(data) THEN {}
    ELSE SeqUnion([i \in DOMAIN data.kv |->
            LET key == data.kv[i][1]
                value == data.kv[i][2]
                prop_name == Append(prefix, key)
            IN  IF key \in AtKeys THEN {}
                ELSE {prop_name} \cup
                     (IF IsDict(value) THEN process_dict(value, prop_name)
                      ELSE IF IsList(value)
                      THEN SeqUnion([j \in DOMAIN value.el |->
                                        process_dict(value.el[j], prop_name)])
                      ELSE {})])

extract_schema_properties(schema_data) ==
    IF ~IsDict(schema_data) THEN {}
    ELSE process_dict(schema_data, <<>>) \cup
         (IF HasGraph(schema_data)
          THEN LET g == Get(schema_data, "@graph").el
               IN  SeqUnion([i \in DOMAIN g |-> process_dict(g[i], <<>>)])
          ELSE {})

(***************************************************************************)
(* _analyze_schema_completeness                                            *)
(***************************************************************************)
\* llm_valuable_schemas: the required properties of the high-value types
llm_valuable_schemas ==
    [Organization |-> <<"name", "url", "logo", "description", "sameAs">>,
     LocalBusiness |-> <<"name", "address", "telephone", "openingHours", "priceRange">>,
     Product |-> <<"name", "description", "image", "offers", "brand", "review">>,
     FAQPage |-> <<"mainEntity">>,
     Question |-> <<"name", "acceptedAnswer">>,
     Article |-> <<"headline", "author", "datePublished", "publisher", "description">>,
     BreadcrumbList |-> <<"itemListElement">>,
     WebSite |-> <<"name", "url", "potentialAction">>,
     Person |-> <<"name", "jobTitle", "affiliation", "description">>,
     Review |-> <<"reviewRating", "author", "itemReviewed">>,
     Event |-> <<"name", "startDate", "location", "description">>,
     Recipe |-> <<"name", "recipeIngredient", "recipeInstructions", "image">>,
     HowTo |-> <<"name", "step", "tool", "supply">>]

\* len(present_props) // len(required_props): the quotient without its fraction
entity_score_floor_division(entity, valuable_schemas, entity_type) ==
    LET required_props == valuable_schemas[entity_type]
        present_props == SelectSeq(required_props, LAMBDA prop : Has(entity, prop))
    IN  IF required_props = <<>> THEN <<>>
        ELSE FromInt(Len(present_props) \div Len(required_props))

\* len(present_props) / len(required_props) of one entity of a listed type
entity_score(entity, valuable_schemas, entity_type) ==
    LET required_props == valuable_schemas[entity_type]
        present_props == SelectSeq(required_props, LAMBDA prop : Has(entity, prop))
    IN  IF required_props = <<>> THEN <<>>
        ELSE FDiv(FromInt(Len(present_props)), FromInt(Len(required_props)))

\* acc = [raise, scores]: raise after `entity_type in valuable_schemas` met an
\* unhashable @type (a list or a dict); scores is completeness_scores
RECURSIVE process_entity(_, _, _)
RECURSIVE process_items(_, _, _, _)
RECURSIVE process_list(_, _, _, _)
process_entity(entity, valuable_schemas, acc) ==
    IF acc.raise \/ ~IsDict(entity) THEN acc
    ELSE IF ~Has(entity, "@type") THEN acc
    ELSE LET entity_type == Get(entity, "@type")
         IN  IF entity_type.k \in {"list", "dict"} THEN [acc EXCEPT !.raise = TRUE]
             ELSE LET listed == IsStr(entity_type) /\ Len(entity_type.s) = 1
                                /\ entity_type.s[1] \in DOMAIN valuable_schemas
                      acc1 == IF listed
                              THEN [acc EXCEPT !.scores =
                                       DictSet(@, entity_type.s[1],
                                               entity_score(entity, valuable_schemas,
                                                            entity_type.s[1]))]
                              ELSE acc
                  IN  process_items(entity.kv, 1, valuable_schemas, acc1)
process_items(kv, i, valuable_schemas, acc) ==
    IF i > Len(kv) THEN acc
    ELSE LET value == kv[i][2]
             acc1 == IF IsDict(value) /\ Has(value, "@type")
                     THEN process_entity(value, valuable_schemas, acc)
                     ELSE IF IsList(value)
                     THEN process_list(value.el, 1, valuable_schemas, acc)
                     ELSE acc
         IN  process_items(kv, i + 1, valuable_schemas, acc1)
process_list(el, j, valuable_schemas, acc) ==
    IF j > Len(el) THEN acc
    ELSE process_list(el, j + 1, valuable_schemas,
                      IF IsDict(el[j]) /\ Has(el[j], "@type")
                      THEN process_entity(el[j], valuable_schemas, acc)
                      ELSE acc)

RECURSIVE process_graph(_, _, _, _)
process_graph(el, j, valuable_schemas, acc) ==
    IF j > Len(el) THEN acc
    ELSE process_graph(el, j + 1, valuable_schemas,
                       process_entity(el[j], valuable_schemas, acc))

analyze_schema_completeness(schema_data, valuable_schemas) ==
    IF ~IsDict(schema_data) THEN [raise |-> FALSE, scores |-> <<>>]
    ELSE LET main == process_entity(schema_data, valuable_schemas,
                                    [raise |-> FALSE, scores |-> <<>>])
         IN  IF HasGraph(schema_data)
             THEN process_graph(Get(schema_data, "@graph").el, 1, valuable_schemas, main)
             ELSE main

(***************************************************************************)
(* _calculate_schema_quality_score                                         *)
(***************************************************************************)
high_value_types ==
    [Organization |-> 8, LocalBusiness |-> 8, Product |-> 8, FAQPage |-> 7,
     Article |-> 7, BreadcrumbList |-> 5, WebSite |-> 5, Person |-> 5, Review |-> 5,
     Event |-> 4, Recipe |-> 4, HowTo |-> 4]

RECURSIVE SetSum(_, _)
SetSum(S, f) == IF S = {} THEN 0
                ELSE LET x == CHOOSE x \in S : TRUE IN f[x] + SetSum(S \ {x}, f)
Min(a, b) == IF a < b THEN a ELSE b
Max(a, b) == IF a > b THEN a ELSE b

\* the completeness points as round(avg_completeness * 30)
calculate_schema_quality_score_rounding(schema_types, properties, completeness, errors) ==
    LET property_count == Cardinality(DOMAIN properties)
        type_score == Min(40, SetSum(schema_types \cap DOMAIN high_value_types,
                                     high_value_types))
        prop_score == IF property_count >= 50 THEN 20
                      ELSE IF property_count >= 30 THEN 15
                      ELSE IF property_count >= 20 THEN 10
                      ELSE IF property_count >= 10 THEN 5
                      ELSE Max(0, property_count)
        completeness_score ==
            IF completeness = <<>> THEN 0
            ELSE FRound(FMul(FDiv(FSum([i \in DOMAIN completeness |-> completeness[i][2]]),
                                  FromInt(Len(completeness))),
                             FromInt(30)))
        error_penalty == Min(10, Len(errors) * 2)
    IN  Max(0, Min(100, type_score + prop_score + completeness_score - error_penalty))

\* completeness: type -> ratio, as an insertion-ordered dict
calculate_schema_quality_score(schema_types, properties, completeness, errors) ==
    LET property_count == Cardinality(DOMAIN properties)
        type_score == Min(40, SetSum(schema_types \cap DOMAIN high_value_types,
                                     high_value_types))
        prop_score == IF property_count >= 50 THEN 20
                      ELSE IF property_count >= 30 THEN 15
                      ELSE IF property_count >= 20 THEN 10
                      ELSE IF property_count >= 10 THEN 5
                      ELSE Max(0, property_count)
        completeness_score ==
            IF completeness = <<>> THEN 0
            ELSE LET avg_completeness ==
                         FDiv(FSum([i \in DOMAIN completeness |-> completeness[i][2]]),
                              FromInt(Len(completeness)))
                 IN  FInt(FMul(avg_completeness, FromInt(30)))
        error_penalty == Min(10, Len(errors) * 2)
        score == type_score + prop_score + completeness_score - error_penalty
    IN  Max(0, Min(100, score))

(***************************************************************************)
(* _analyze_schema_org.  A <script type="application/ld+json"> is          *)
(* [text, data]: text "json" when json.loads(script.string) returns data,  *)
(* "invalid" when it raises JSONDecodeError, "none" when script.string is  *)
(* None (json.loads raises TypeError).                                     *)
(* The loop state st: schemas (a count), schema_types, schema_properties   *)
(* (path -> count), schema_errors (a sequence of "json" and "processing"), *)
(* schema_completeness (type -> list of ratios, insertion-ordered).        *)
(* Blocks carry no "@id", so _extract_schema_relationships finds nothing   *)
(* and cannot raise.                                                       *)
(***************************************************************************)
AddCounts(schema_properties, properties) ==
    [prop \in DOMAIN schema_properties \cup properties |->
        (IF prop \in DOMAIN schema_properties THEN schema_properties[prop] ELSE 0)
        + (IF prop \in properties THEN 1 ELSE 0)]

RECURSIVE AppendScores(_, _, _)
AppendScores(schema_completeness, completeness, i) ==
    IF i > Len(completeness) THEN schema_completeness
    ELSE LET schema_type == completeness[i][1]
             old == IF schema_type \in DictKeys(schema_completeness)
                    THEN DictGet(schema_completeness, schema_type) ELSE <<>>
         IN  AppendScores(DictSet(schema_completeness, schema_type,
                                  Append(old, completeness[i][2])),
                          completeness, i + 1)

WithError(st, kind) == [st EXCEPT !.schema_errors = Append(@, kind)]

\* completeness = self._analyze_schema_completeness(...) and the loop over it
record_completeness(st, completeness) ==
    IF completeness.raise THEN WithError(st, "processing")
    ELSE [st EXCEPT !.schema_completeness = AppendScores(@, completeness.scores, 1)]
\* properties = self._extract_schema_properties(schema_data) and the counting
record_properties(st, schema_data) ==
    record_completeness([st EXCEPT !.schema_properties =
                            AddCounts(@, extract_schema_properties(schema_data))],
                        analyze_schema_completeness(schema_data, llm_valuable_schemas))
\* schema_type = self._extract_schema_type(schema_data) and schema_types.update
record_type(st, schema_data, schema_type) ==
    IF schema_type.raise THEN WithError(st, "processing")
    ELSE IF Truthy(schema_type.value) /\ ~IsStr(schema_type.value)
    THEN WithError(st, "processing")      \* .split: AttributeError
    ELSE record_properties(IF Truthy(schema_type.value)
                           THEN [st EXCEPT !.schema_types =
                                    @ \cup {schema_type.value.s[i] :
                                               i \in DOMAIN schema_type.value.s}]
                           ELSE st,
                           schema_data)
\* the body of the loop over the scripts; schemas.append(schema_data) comes
\* before everything that can raise
process_script(st, script) ==
    IF script.text = "invalid" THEN WithError(st, "json")
    ELSE IF script.text = "none" THEN WithError(st, "processing")
    ELSE record_type([st EXCEPT !.schemas = @ + 1], script.data,
                     extract_schema_type(script.data))

RECURSIVE process_scripts(_, _, _)
process_scripts(st, schema_scripts, i) ==
    IF i > Len(schema_scripts) THEN st
    ELSE process_scripts(process_script(st, schema_scripts[i]), schema_scripts, i + 1)

\* avg_completeness: the mean of the ratios of each type
average_completeness(schema_completeness) ==
    [i \in DOMAIN schema_completeness |->
        <<schema_completeness[i][1],
          FDiv(FSum(schema_completeness[i][2]),
               FromInt(Len(schema_completeness[i][2])))>>]
\* the returned dict ("schemas", "relationships", "type_count" and
\* "relationship_count" feed no score and no recommendation)
schema_report(st) ==
    [found |-> st.schemas > 0,
     count |-> st.schemas,
     types |-> st.schema_types,
     properties |-> st.schema_properties,
     errors |-> st.schema_errors,
     high_value_schemas |->
        [organization |-> st.schema_types \cap {"Organization", "LocalBusiness",
                                                "Corporation"} # {},
         product |-> "Product" \in st.schema_types,
         faq |-> st.schema_types \cap {"FAQPage", "Question"} # {},
         breadcrumb |-> "BreadcrumbList" \in st.schema_types,
         article |-> st.schema_types \cap {"Article", "BlogPosting", "NewsArticle"} # {},
         website |-> "WebSite" \in st.schema_types,
         person |-> "Person" \in st.schema_types,
         review |-> "Review" \in st.schema_types,
         event |-> "Event" \in st.schema_types,
         howto |-> st.schema_types \cap {"HowTo", "Recipe"} # {}],
     property_count |-> Cardinality(DOMAIN st.schema_properties),
     completeness |-> average_completeness(st.schema_completeness),
     quality_score |-> calculate_schema_quality_score(st.schema_types,
                           st.schema_properties,
                           average_completeness(st.schema_completeness),
                           st.schema_errors)]
analyze_schema_org(schema_scripts) ==
    schema_report(process_scripts([schemas |-> 0, schema_types |-> {},
                                   schema_properties |-> <<>>, schema_errors |-> <<>>,
                                   schema_completeness |-> <<>>],
                                  schema_scripts, 1))

(***************************************************************************)
(* _calculate_schema_score                                                 *)
(***************************************************************************)
\* the points for the number of schemas, with those of two and of three swapped
schema_count_points_swapped(count) ==
    IF count >= 3 THEN 10 ELSE IF count = 2 THEN 15 ELSE 5

\* "Multiple schemas are better"
schema_count_points(count) ==
    IF count >= 3 THEN 15 ELSE IF count = 2 THEN 10 ELSE 5

calculate_schema_score(schema_analysis) ==
    LET presence == IF ~schema_analysis.found THEN 0
                    ELSE 15 + schema_count_points(schema_analysis.count)
        high_value == schema_analysis.high_value_schemas
        valuable == (IF high_value.organization THEN 10 ELSE 0)
                    + (IF high_value.product THEN 10 ELSE 0)
                    + (IF high_value.faq THEN 10 ELSE 0)
                    + (IF high_value.breadcrumb THEN 5 ELSE 0)
                    + (IF high_value.article THEN 5 ELSE 0)
        property_count == schema_analysis.property_count
        richness == IF property_count >= 20 THEN 30
                    ELSE IF property_count >= 15 THEN 25
                    ELSE IF property_count >= 10 THEN 20
                    ELSE IF property_count >= 5 THEN 10
                    ELSE IF property_count > 0 THEN 5
                    ELSE 0
    IN  Min(presence + valuable + richness, 100)

(***************************************************************************)
(* _analyze_meta_tags and the two completeness ratios                      *)
(***************************************************************************)
\* the title's share of the basic score: weight, or weight * 0.8, 0.6, 0.3
basic_title_credit(title_length, weight) ==
    IF 50 <= title_length /\ title_length <= 65 THEN weight                \* optimal
    ELSE IF 40 <= title_length /\ title_length <= 75 THEN FMul(weight, F_08)   \* good
    ELSE IF 30 <= title_length /\ title_length <= 85 THEN FMul(weight, F_06)   \* acceptable
    ELSE FMul(weight, F_03)

\* the description's share of the basic score
basic_description_credit(desc_length, weight) ==
    IF 140 <= desc_length /\ desc_length <= 170 THEN weight                  \* optimal
    ELSE IF 120 <= desc_length /\ desc_length <= 190 THEN FMul(weight, F_08)   \* good
    ELSE IF 100 <= desc_length /\ desc_length <= 220 THEN FMul(weight, F_06)   \* acceptable
    ELSE FMul(weight, F_03)

\* the amounts `score +=` adds in _calculate_basic_meta_completeness, in order
basic_score_terms(meta_analysis) ==
    (IF meta_analysis.title
     THEN <<basic_title_credit(meta_analysis.title_length, F_04)>> ELSE <<>>)
    \o (IF meta_analysis.description
        THEN <<basic_description_credit(meta_analysis.description_length, F_04)>>
        ELSE <<>>)
    \o (IF meta_analysis.description /\ meta_analysis.keywords
           /\ meta_analysis.keyword_matches >= 2
        THEN <<F_005>> ELSE <<>>)
    \o (IF meta_analysis.canonical THEN <<F_01>> ELSE <<>>)
    \o (IF meta_analysis.robots = "none" THEN <<>>
        ELSE IF meta_analysis.robots # "noindex" THEN <<F_005>>
        ELSE <<FMul(F_005, F_02)>>)
    \o (IF meta_analysis.viewport # "none" THEN <<F_005>> ELSE <<>>)

\* the amounts `total_weight +=` adds, in order
basic_weight_terms(meta_analysis) ==
    (IF meta_analysis.title THEN <<F_04>> ELSE <<>>)
    \o (IF meta_analysis.description THEN <<F_04>> ELSE <<>>)
    \o (IF meta_analysis.canonical THEN <<F_01>> ELSE <<>>)
    \o (IF meta_analysis.robots # "none" THEN <<F_005>> ELSE <<>>)
    \o (IF meta_analysis.viewport # "none" THEN <<F_005>> ELSE <<>>)

calculate_basic_meta_completeness(meta_analysis) ==
    FDiv(FSum(basic_score_terms(meta_analysis)),
         FMax(FSum(basic_weight_terms(meta_analysis)), F_001))

OG_ESSENTIAL == {"og:title", "og:description", "og:image", "og:url", "og:type"}
TWITTER_ESSENTIAL == {"twitter:card", "twitter:title", "twitter:description", "twitter:image"}

\* base_score + quality_bonus of the Open Graph tags
og_quality(og_tags, article_tags) ==
    FAdd(FDiv(FromInt(Cardinality(OG_ESSENTIAL \cap DOMAIN og_tags)),
              FromInt(Cardinality(OG_ESSENTIAL))),
         FAdd(IF {"og:image:width", "og:image:height"} \subseteq DOMAIN og_tags
                 /\ int_of(og_tags["og:image:width"]) >= 1200
                 /\ int_of(og_tags["og:image:height"]) >= 630
              THEN F_01 ELSE <<>>,
              IF "og:type" \in DOMAIN og_tags /\ og_tags["og:type"] = "article"
                 /\ article_tags > 0
              THEN FMin(F_01, FMul(FromInt(article_tags), F_002))
              ELSE <<>>))

\* the amounts `score +=` adds in _calculate_social_meta_completeness, in order
social_score_terms(meta_analysis) ==
    (IF DOMAIN meta_analysis.og_tags # {}
     THEN <<FMul(F_06, og_quality(meta_analysis.og_tags, meta_analysis.article_tags))>>
     ELSE <<>>)
    \o (IF meta_analysis.twitter_tags # {}
        THEN <<FMul(F_03,
                    FDiv(FromInt(Cardinality(TWITTER_ESSENTIAL
                                             \cap meta_analysis.twitter_tags)),
                         FromInt(Cardinality(TWITTER_ESSENTIAL))))>>
        ELSE <<>>)

social_weight_terms(meta_analysis) ==
    (IF DOMAIN meta_analysis.og_tags # {} THEN <<F_06>> ELSE <<>>)
    \o (IF meta_analysis.twitter_tags # {} THEN <<F_03>> ELSE <<>>)

calculate_social_meta_completeness(meta_analysis) ==
    IF social_weight_terms(meta_analysis) = <<>> THEN <<>>
    ELSE FDiv(FSum(social_score_terms(meta_analysis)),
              FMax(FSum(social_weight_terms(meta_analysis)), F_001))

\* meta_analysis["completeness"]
meta_completeness(basic, social) ==
    [basic |-> basic, social |-> social,
     overall |-> FAdd(FMul(basic, F_07), FMul(social, F_03))]

\* what _analyze_meta_tags finds before it computes the completeness
found_meta_tags(soup_meta) ==
    [title |-> soup_meta.title_length > 0,
     title_length |-> soup_meta.title_length,
     title_sep |-> soup_meta.title_length > 0 /\ soup_meta.title_sep,
     description |-> soup_meta.description_length > 0,
     description_length |-> soup_meta.description_length,
     description_words |-> soup_meta.description_words,
     keywords |-> soup_meta.keywords,
     keyword_matches |-> soup_meta.keyword_matches,
     canonical |-> soup_meta.canonical,
     robots |-> soup_meta.robots,
     viewport |-> soup_meta.viewport,
     og_tags |-> soup_meta.og_tags,
     twitter_tags |-> soup_meta.twitter_tags,
     article_tags |-> soup_meta.article_tags]

with_completeness(found) ==
    found @@ [completeness |->
                 meta_completeness(calculate_basic_meta_completeness(found),
                                   calculate_social_meta_completeness(found))]

\* soup_meta: what the page's head holds; the result is meta_analysis
analyze_meta_tags(soup_meta) == with_completeness(found_meta_tags(soup_meta))

\* the title-quality points with the third band reaching 90 characters
title_quality_points_wide_band(title_length) ==
    IF 50 <= title_length /\ title_length <= 60 THEN 10
    ELSE IF 40 <= title_length /\ title_length <= 70 THEN 7
    ELSE IF 30 <= title_length /\ title_length <= 90 THEN 5
    ELSE 2

title_quality_points(title_length) ==
    IF 50 <= title_length /\ title_length <= 60 THEN 10
    ELSE IF 40 <= title_length /\ title_length <= 70 THEN 7
    ELSE IF 30 <= title_length /\ title_length <= 80 THEN 5
    ELSE 2

\* the points of the meta score before min(score, 100)
meta_points(meta_analysis) ==
    LET basic_pts == FInt(FMul(meta_analysis.completeness.basic, FromInt(50)))
        social_pts == FInt(FMul(meta_analysis.completeness.social, FromInt(30)))
        title_length == meta_analysis.title_length
        title_pts == IF ~meta_analysis.title THEN 0
                     ELSE title_quality_points(title_length)
        desc_length == meta_analysis.description_length
        desc_pts ==
            IF ~meta_analysis.description THEN 0
            ELSE IF 140 <= desc_length /\ desc_length <= 160 THEN 10
            ELSE IF 120 <= desc_length /\ desc_length <= 180 THEN 7
            ELSE IF 100 <= desc_length /\ desc_length <= 200 THEN 5
            ELSE 2
    IN  basic_pts + social_pts + title_pts + desc_pts

\* the title-quality else branch (2 points) taken without a title too
calculate_meta_score_unguarded_title(meta_analysis) ==
    LET score == meta_points(meta_analysis) + (IF meta_analysis.title THEN 0 ELSE 2)
    IN  IF score < 100 THEN score ELSE 100

\* the meta score returned without the cap
calculate_meta_score_uncapped(meta_analysis) == meta_points(meta_analysis)

calculate_meta_score(meta_analysis) ==
    LET score == meta_points(meta_analysis)
    IN  IF score < 100 THEN score ELSE 100

(***************************************************************************)
(* _analyze_content_structure.  soup_content holds                         *)
(*   headings     the levels (1..6) of the h1..h6 tags in document order   *)
(*   paragraphs, lists (ul + ol), list_items, tables, images,              *)
(*   images_with_alt, word_count                                           *)
(*   grade10      the Flesch-Kincaid grade of the text in tenths, as       *)
(*                round(grade, 1) leaves it (0 when the text has no words) *)
(*   dl_faq       the <dl> with more than one <dt> and as many <dd>        *)
(*   heading_faq  the question headings followed by an answer of more than *)
(*                15 characters                                            *)
(*   semantic     the counts of the semantic HTML5 elements present        *)
(*   patterns     the number of keys of _detect_structured_patterns        *)
(*   entities     TRUE when organizations or products are mentioned        *)
(***************************************************************************)
\* find_all('h1'), ..., find_all('h6') concatenated: the levels, level by level
headings_by_level(doc_headings) ==
    SeqCat([i \in 1..6 |-> SelectSeq(doc_headings, LAMBDA h : h = i)])

heading_counts(doc_headings) ==
    [i \in 1..6 |-> Len(SelectSeq(doc_headings, LAMBDA h : h = i))]


analyze_heading_hierarchy(doc_headings) ==
    LET headings == headings_by_level(doc_headings)
        hierarchy_violations ==
            Cardinality({i \in 2..Len(headings) :
                            headings[i] > headings[i - 1]
                            /\ headings[i] - headings[i - 1] > 1})
        violation_ratio == FDiv(FromInt(hierarchy_violations), FromInt(Len(headings)))
    IN  IF headings = <<>> THEN <<>>
        ELSE IF headings[1] # 1 THEN F_03
        ELSE FMax(<<>>, FSub(FromInt(1), violation_ratio))

is_faq_schema(schema_data) ==
    IF ~IsDict(schema_data) THEN FALSE
    ELSE LET type_is(d, t) == Has(d, "@type") /\ Get(d, "@type") = JText(t)
         IN  \/ type_is(schema_data, "FAQPage")
             \/ /\ type_is(schema_data, "WebPage")
                /\ Has(schema_data, "mainEntity")
                /\ IsDict(Get(schema_data, "mainEntity"))
                /\ type_is(Get(schema_data, "mainEntity"), "FAQPage")
             \/ /\ HasGraph(schema_data)
                /\ \E i \in DOMAIN Get(schema_data, "@graph").el :
                      LET item == Get(schema_data, "@graph").el[i]
                      IN  IsDict(item) /\ type_is(item, "FAQPage")

\* len(_detect_faq_sections(soup)), by detection method
detect_faq_sections(schema_scripts, soup_content) ==
    [schema |-> Len(SelectSeq(schema_scripts,
                              LAMBDA script : script.text = "json"
                                              /\ is_faq_schema(script.data))),
     dl_list |-> soup_content.dl_faq,
     heading_pattern |-> soup_content.heading_faq]


calculate_content_diversity(headings, paragraph_count, list_count, table_count, faq_count, image_count, semantic_elements) ==
    LET heading_types == Cardinality({i \in DOMAIN headings : headings[i] > 0})
        heading_score == FMin(F_02, FMul(FromInt(heading_types), F_004))
        paragraph_score ==
            FMin(F_015, FMul(FDiv(FromInt(paragraph_count), FromInt(50)), F_015))
        list_score == FMin(F_015, FMul(FDiv(FromInt(list_count), FromInt(5)), F_015))
        table_score == FMin(F_01, FMul(FDiv(FromInt(table_count), FromInt(2)), F_01))
        faq_score == FMin(F_015, FMul(FDiv(FromInt(faq_count), FromInt(3)), F_015))
        image_score == FMin(F_01, FMul(FDiv(FromInt(image_count), FromInt(10)), F_01))
        semantic_count == SeqSum(semantic_elements)
        semantic_score ==
            FMin(F_015, FMul(FDiv(FromInt(semantic_count), FromInt(10)), F_015))
    IN  FSum(<<heading_score, paragraph_score, list_score, table_score, faq_score,
               image_score, semantic_score>>)

analyze_content_structure(schema_scripts, soup_content) ==
    LET headings == heading_counts(soup_content.headings)
        faq_sections == detect_faq_sections(schema_scripts, soup_content)
        faq_count == faq_sections.schema + faq_sections.dl_list
                     + faq_sections.heading_pattern
    IN  [headings |-> headings,
         heading_hierarchy_score |-> analyze_heading_hierarchy(soup_content.headings),
         paragraphs |-> soup_content.paragraphs,
         lists |-> soup_content.lists,
         list_items |-> soup_content.list_items,
         tables |-> soup_content.tables,
         faq_sections |-> faq_sections,
         faq_count |-> faq_count,
         images |-> soup_content.images,
         images_with_alt |-> soup_content.images_with_alt,
         word_count |-> soup_content.word_count,
         readability_score |-> [flesch_kincaid_grade10 |-> soup_content.grade10],
         semantic_elements |-> soup_content.semantic,
         structured_patterns |-> soup_content.patterns,
         content_diversity_score |->
            calculate_content_diversity(headings, soup_content.paragraphs,
                                        soup_content.lists, soup_content.tables,
                                        faq_count, soup_content.images,
                                        soup_content.semantic),
         entity_mentions |-> soup_content.entities]

(***************************************************************************)
(* _calculate_content_score                                                *)
(***************************************************************************)
calculate_content_score(content_analysis) ==
    LET heading_pts ==
            IF content_analysis.headings[1] > 0
            THEN 10 + FInt(FMul(content_analysis.heading_hierarchy_score, FromInt(15)))
            ELSE 0
        word_count == content_analysis.word_count
        length_pts == IF word_count >= 1500 THEN 20
                      ELSE IF word_count >= 1000 THEN 15
                      ELSE IF word_count >= 500 THEN 10
                      ELSE IF word_count >= 300 THEN 5
                      ELSE 0
        list_pts == IF content_analysis.lists >= 3 THEN 10
                    ELSE IF content_analysis.lists > 0 THEN 5 ELSE 0
        item_pts == IF content_analysis.list_items >= 10 THEN 5
                    ELSE IF content_analysis.list_items > 0 THEN 2 ELSE 0
        table_pts == IF content_analysis.tables > 0 THEN 5 ELSE 0
        faq_count == content_analysis.faq_count
        faq_pts == IF faq_count >= 3 THEN 20
                   ELSE IF faq_count = 2 THEN 15
                   ELSE IF faq_count = 1 THEN 10
                   ELSE 0
        images == content_analysis.images
        images_with_alt == content_analysis.images_with_alt
        image_pts == IF images > 0
                     THEN FInt(FMul(FDiv(FromInt(images_with_alt), FromInt(images)),
                                    FromInt(10)))
                     ELSE 0
        grade10 == content_analysis.readability_score.flesch_kincaid_grade10
        read_pts == IF 60 <= grade10 /\ grade10 <= 100 THEN 5
                    ELSE IF 50 <= grade10 /\ grade10 <= 120 THEN 3
                    ELSE 0
        score == heading_pts + length_pts + list_pts + item_pts + table_pts
                 + faq_pts + image_pts + read_pts
    IN  Min(score, 100)

(***************************************************************************)
(* _analyze_technical_factors and _calculate_technical_score.              *)
(* soup_tech: viewport ("none", "plain", or "device" when its content has  *)
(* width=device-width), responsive (a <style> with @media or a stylesheet  *)
(* link for screen), internal_links, external_links.                       *)
(* response: size_kb = len(response.content) / 1024 and                    *)
(* elapsed_ms = response.elapsed.total_seconds() * 1000, both whole.       *)
(* probes: the outcome of the HEAD requests for /sitemap.xml and           *)
(* /robots.txt, TRUE when the status code is 200.                          *)
(* domain: [scheme, host], scheme "" when the text has none.               *)
(***************************************************************************)
\* _check_mobile_friendly ending in `return False` when no responsive indicator
\* is found
check_mobile_friendly_no_default(soup_tech) ==
    IF soup_tech.viewport # "device" THEN FALSE
    ELSE soup_tech.responsive

check_mobile_friendly(soup_tech) ==
    IF soup_tech.viewport # "device" THEN FALSE
    ELSE IF soup_tech.responsive THEN TRUE
    ELSE soup_tech.viewport # "none"

analyze_technical_factors(soup_tech, domain, response, probes) ==
    [page_size_kb |-> response.size_kb,
     load_time_ms |-> response.elapsed_ms,
     ssl_enabled |-> domain.scheme = "https",
     mobile_friendly |-> check_mobile_friendly(soup_tech),
     structured_data_valid |-> TRUE,
     has_sitemap |-> probes.sitemap,
     has_robots_txt |-> probes.robots,
     internal_links |-> soup_tech.internal_links,
     external_links |-> soup_tech.external_links]

calculate_technical_score(technical_analysis) ==
    LET ssl_pts == IF technical_analysis.ssl_enabled THEN 20 ELSE 0
        mobile_pts == IF technical_analysis.mobile_friendly THEN 20 ELSE 0
        page_size_kb == technical_analysis.page_size_kb
        load_time_ms == technical_analysis.load_time_ms
        size_pts == IF page_size_kb <= 500 THEN 10
                    ELSE IF page_size_kb <= 1000 THEN 7
                    ELSE IF page_size_kb <= 2000 THEN 5
                    ELSE IF page_size_kb <= 3000 THEN 2
                    ELSE 0
        time_pts == IF load_time_ms <= 500 THEN 10
                    ELSE IF load_time_ms <= 1000 THEN 7
                    ELSE IF load_time_ms <= 2000 THEN 5
                    ELSE IF load_time_ms <= 3000 THEN 2
                    ELSE 0
        sitemap_pts == IF technical_analysis.has_sitemap THEN 10 ELSE 0
        robots_pts == IF technical_analysis.has_robots_txt THEN 10 ELSE 0
        internal_links == technical_analysis.internal_links
        external_links == technical_analysis.external_links
        internal_pts == IF internal_links >= 20 THEN 10
                        ELSE IF internal_links >= 10 THEN 7
                        ELSE IF internal_links >= 5 THEN 5
                        ELSE IF internal_links > 0 THEN 2
                        ELSE 0
        external_pts == IF external_links >= 5 THEN 10
                        ELSE IF external_links >= 3 THEN 7
                        ELSE IF external_links >= 1 THEN 5
                        ELSE 0
        score == ssl_pts + mobile_pts + size_pts + time_pts + sitemap_pts + robots_pts
                 + internal_pts + external_pts
    IN  Min(score, 100)

(***************************************************************************)
(* _calculate_overall_score                                                *)
(***************************************************************************)
\* the weights table of _calculate_overall_score
W_schema == Lit(35, 100)
W_content == Lit(30, 100)
W_meta == Lit(25, 100)
\* the technical weight written 0.01
W_technical_hundredth == Lit(1, 100)
W_technical == Lit(10, 100)

\* the bonus for schema and content given at 80 exactly
final_score_bonus_at_equality(schema_score, meta_score, content_score, technical_score) ==
    LET weighted_score ==
            FAdd(FAdd(FAdd(FMul(FromInt(schema_score), W_schema),
                           FMul(FromInt(meta_score), W_meta)),
                      FMul(FromInt(content_score), W_content)),
                 FMul(FromInt(technical_score), W_technical))
        b1 == IF schema_score = 80 /\ content_score = 80 THEN 5 ELSE 0
        b2 == IF \A score \in {schema_score, meta_score, content_score, technical_score} :
                    score >= 70
              THEN 3 ELSE 0
        b3 == IF meta_score >= 90 /\ schema_score >= 70 THEN 2 ELSE 0
        bonus == b1 + b2 + b3
    IN  FAdd(weighted_score, FromInt(bonus))

\* final_score = weighted_score + bonus
final_score(schema_score, meta_score, content_score, technical_score) ==
    LET weighted_score ==
            FAdd(FAdd(FAdd(FMul(FromInt(schema_score), W_schema),
                           FMul(FromInt(meta_score), W_meta)),
                      FMul(FromInt(content_score), W_content)),
                 FMul(FromInt(technical_score), W_technical))
        b1 == IF schema_score >= 80 /\ content_score >= 80 THEN 5 ELSE 0
        b2 == IF \A score \in {schema_score, meta_score, content_score, technical_score} :
                    score >= 70
              THEN 3 ELSE 0
        b3 == IF meta_score >= 90 /\ schema_score >= 70 THEN 2 ELSE 0
        bonus == b1 + b2 + b3
    IN  FAdd(weighted_score, FromInt(bonus))

\* int(final_score) in place of round(final_score)
calculate_overall_score_truncating(schema_score, meta_score, content_score, technical_score) ==
    LET sum == final_score(schema_score, meta_score, content_score, technical_score)
    IN  IF FLt(sum, FromInt(100)) THEN FInt(sum) ELSE 100

\* min(round(final_score), 100)
calculate_overall_score(schema_score, meta_score, content_score, technical_score) ==
    LET sum == final_score(schema_score, meta_score, content_score, technical_score)
    IN  IF FLt(sum, FromInt(100)) THEN FRound(sum) ELSE 100

(***************************************************************************)
(* _generate_recommendations.  A recommendation is [priority, category,    *)
(* issue, detail, implementation]: detail is the text an f-string puts in  *)
(* the issue, implementation tells whether the dict has that key (the      *)
(* "recommendation" text is fixed by the issue and left out).              *)
(***************************************************************************)
Rec(priority, category, issue, detail) ==
    [priority |-> priority, category |-> category, issue |-> issue,
     detail |-> detail, implementation |-> TRUE]

\* the schema checks with the completeness loop running on after its first item
schema_checks_without_break(audit_results) ==
    LET schema_org == audit_results.schema_org
        high_value == schema_org.high_value_schemas
        completeness == schema_org.completeness
        low == SelectSeq(completeness, LAMBDA item : FLt(item[2], F_07))
    IN  IF ~schema_org.found
        THEN << <<TRUE, Rec("high", "schema", "No Schema.org markup found", "")>> >>
        ELSE << <<schema_org.quality_score < 50 /\ schema_org.found,
                  Rec("high", "schema", "Low quality Schema.org implementation", "")>>,
                <<~high_value.organization,
                  Rec("high", "schema", "Missing Organization schema", "")>>,
                <<~high_value.product /\ ~high_value.article /\ ~high_value.howto,
                  Rec("medium", "schema", "Missing content type schemas", "")>>,
                <<~high_value.faq /\ audit_results.content_structure.faq_count = 0,
                  Rec("medium", "schema", "No FAQ content or schema", "")>> >>
             \o [i \in DOMAIN low |->
                   <<TRUE, Rec("medium", "schema", "Incomplete schema properties",
                               low[i][1])>>]

\* the checks in evaluation order, each <<condition, recommendation>>
schema_checks(audit_results) ==
    LET schema_org == audit_results.schema_org
        high_value == schema_org.high_value_schemas
        completeness == schema_org.completeness
        low == SelectSeq(completeness, LAMBDA item : FLt(item[2], F_07))
    IN  IF ~schema_org.found
        THEN << <<TRUE, Rec("high", "schema", "No Schema.org markup found", "")>> >>
        ELSE << <<schema_org.quality_score < 50 /\ schema_org.found,
                  Rec("high", "schema", "Low quality Schema.org implementation", "")>>,
                <<~high_value.organization,
                  Rec("high", "schema", "Missing Organization schema", "")>>,
                <<~high_value.product /\ ~high_value.article /\ ~high_value.howto,
                  Rec("medium", "schema", "Missing content type schemas", "")>>,
                <<~high_value.faq /\ audit_results.content_structure.faq_count = 0,
                  Rec("medium", "schema", "No FAQ content or schema", "")>>,
                <<low # <<>>,
                  Rec("medium", "schema", "Incomplete schema properties",
                      IF low # <<>> THEN low[1][1] ELSE "")>> >>

meta_checks(audit_results) ==
    LET meta_tags == audit_results.meta_tags
    IN  << <<~meta_tags.title, Rec("high", "meta", "Missing title tag", "")>>,
           <<meta_tags.title /\ (meta_tags.title_length < 30 \/ meta_tags.title_length > 70),
             Rec("medium", "meta", "Suboptimal title length",
                 ToString(meta_tags.title_length))>>,
           <<meta_tags.title /\ ~meta_tags.title_sep,
             Rec("low", "meta", "Title lacks proper structure", "")>>,
           <<~meta_tags.description,
             Rec("high", "meta", "Missing meta description", "")>>,
           <<meta_tags.description /\ (meta_tags.description_length < 100
                                       \/ meta_tags.description_length > 180),
             Rec("medium", "meta", "Suboptimal description length",
                 ToString(meta_tags.description_length))>>,
           <<meta_tags.description /\ meta_tags.description_words < 15,
             Rec("medium", "meta", "Low-quality meta description", "")>>,
           <<DOMAIN meta_tags.og_tags = {},
             Rec("medium", "meta", "Missing Open Graph tags", "")>>,
           <<DOMAIN meta_tags.og_tags # {} /\ "og:image" \notin DOMAIN meta_tags.og_tags,
             Rec("medium", "meta", "Missing og:image tag", "")>> >>

content_checks(audit_results) ==
    LET content == audit_results.content_structure
    IN  << <<content.headings[1] = 0,
             Rec("high", "content", "Missing H1 heading", "")>>,
           <<FLt(content.heading_hierarchy_score, F_07),
             Rec("medium", "content", "Poor heading hierarchy", "")>>,
           <<content.word_count < 300,
             Rec("high", "content", "Insufficient content length", "")>>,
           <<content.lists = 0,
             Rec("medium", "content", "No list elements found", "")>>,
           <<FLt(content.content_diversity_score, F_05),
             Rec("medium", "content", "Low content diversity", "")>>,
           <<Len(content.semantic_elements) < 3,
             Rec("medium", "content", "Limited use of semantic HTML elements", "")>>,
           <<content.faq_count = 0,
             Rec("medium", "content", "No FAQ sections found", "")>>,
           <<~content.entity_mentions,
             Rec("low", "content", "Limited entity mentions", "")>>,
           <<content.images > 0
             /\ FLt(FDiv(FromInt(content.images_with_alt), FromInt(Max(content.images, 1))),
                    F_05),
             Rec("medium", "content", "Images missing alt text", "")>>,
           <<content.structured_patterns = 0,
             Rec("medium", "content", "Limited structured content patterns", "")>> >>

technical_checks(audit_results) ==
    LET technical == audit_results.technical_factors
    IN  << <<~technical.ssl_enabled,
             Rec("high", "technical", "SSL not enabled", "")>>,
           <<~technical.mobile_friendly,
             Rec("high", "technical", "Not mobile-friendly", "")>>,
           <<technical.page_size_kb > 2000,
             Rec("medium", "technical", "Large page size",
                 ToString(technical.page_size_kb))>>,
           <<~technical.has_sitemap,
             Rec("medium", "technical", "No sitemap.xml found", "")>>,
           <<~technical.structured_data_valid,
             Rec("high", "technical", "Invalid structured data", "")>>,
           <<technical.load_time_ms > 3000,
             Rec("medium", "technical", "Slow page load time", "")>> >>

\* recommendations before the sort: the appended ones, in evaluation order
appended_recommendations(audit_results) ==
    LET checks == schema_checks(audit_results) \o meta_checks(audit_results)
                  \o content_checks(audit_results) \o technical_checks(audit_results)
        fired == SelectSeq(checks, LAMBDA c : c[1])
    IN  [i \in DOMAIN fired |-> fired[i][2]]

\* the sort keys with those of medium and low exchanged
priority_order_low_first == [high |-> 0, medium |-> 2, low |-> 1]

priority_order == [high |-> 0, medium |-> 1, low |-> 2]

\* list.sort(key=...): a stable insertion of each item behind the items whose
\* key is not larger
RECURSIVE sort_by_priority(_)
sort_by_priority(recommendations) ==
    IF recommendations = <<>> THEN <<>>
    ELSE LET n == Len(recommendations)
             x == recommendations[n]
             rest == sort_by_priority(SubSeq(recommendations, 1, n - 1))
             keep == SelectSeq(rest, LAMBDA r : priority_order[r.priority]
                                                <= priority_order[x.priority])
             move == SelectSeq(rest, LAMBDA r : priority_order[r.priority]
                                                > priority_order[x.priority])
         IN  keep \o <<x>> \o move

generate_recommendations(audit_results) ==
    sort_by_priority(appended_recommendations(audit_results))

(***************************************************************************)
(* audit_website.  A request is what one call meets:                       *)
(*   url       the domain argument, [scheme, host]                         *)
(*   exc       "none", or the class of the exception session.get raises    *)
(*   response  [status_code, size_kb, elapsed_ms] of the response          *)
(*   page      [scripts, meta, content, tech]: the parsed response.content *)
(*   probes    the outcomes of the two HEAD requests                       *)
(*   now       the value datetime.now() returns                            *)
(***************************************************************************)
\* the classes of requests.exceptions an exception is an instance of
exception_classes ==
    [ConnectionError |-> {"ConnectionError", "RequestException", "Exception"},
     SSLError |-> {"SSLError", "ConnectionError", "RequestException", "Exception"},
     ConnectTimeout |-> {"ConnectTimeout", "ConnectionError", "Timeout",
                         "RequestException", "Exception"},
     ReadTimeout |-> {"ReadTimeout", "Timeout", "RequestException", "Exception"},
     Timeout |-> {"Timeout", "RequestException", "Exception"},
     HTTPError |-> {"HTTPError", "RequestException", "Exception"},
     TooManyRedirects |-> {"TooManyRedirects", "RequestException", "Exception"}]

\* the except clauses of audit_website, in order
except_clauses == <<"ConnectionError", "Timeout", "HTTPError", "Exception">>

handler_of(exc) ==
    except_clauses[CHOOSE i \in DOMAIN except_clauses :
                      /\ except_clauses[i] \in exception_classes[exc]
                      /\ \A j \in 1..(i - 1) :
                            except_clauses[j] \notin exception_classes[exc]]

ErrorRec(issue, detail) ==
    [priority |-> "high", category |-> "technical", issue |-> issue,
     detail |-> detail, implementation |-> FALSE]

error_result(domain, exc, response) ==
    LET clause == handler_of(exc)
    IN  CASE clause = "ConnectionError" ->
               [domain |-> domain, error |-> "Connection error",
                error_type |-> "connection_error", llm_friendly_score |-> 0,
                recommendations |-> <<ErrorRec("Website connection failed", "")>>]
          [] clause = "Timeout" ->
               [domain |-> domain, error |-> "Timeout error",
                error_type |-> "timeout", llm_friendly_score |-> 0,
                recommendations |-> <<ErrorRec("Website response timeout", "")>>]
          [] clause = "HTTPError" ->
               [domain |-> domain, error |-> "HTTP error",
                error_type |-> "http_error", status_code |-> response.status_code,
                llm_friendly_score |-> 0,
                recommendations |->
                    <<ErrorRec("HTTP error", ToString(response.status_code))>>]
          [] clause = "Exception" ->
               [domain |-> domain, error |-> "Unexpected error",
                error_type |-> "unexpected_error", llm_friendly_score |-> 0,
                recommendations |-> <<ErrorRec("Website audit failed", "")>>]

\* audit_results with its last three keys
audit_report(audit_results, component_scores) ==
    audit_results
    @@ [component_scores |-> component_scores,
        llm_friendly_score |->
            calculate_overall_score(component_scores.schema_score,
                                    component_scores.meta_score,
                                    component_scores.content_score,
                                    component_scores.technical_score),
        recommendations |-> generate_recommendations(audit_results)]

\* the four _calculate_*_score calls on the analyses
scored(audit_results) ==
    audit_report(audit_results,
                 [schema_score |-> calculate_schema_score(audit_results.schema_org),
                  meta_score |-> calculate_meta_score(audit_results.meta_tags),
                  content_score |->
                      calculate_content_score(audit_results.content_structure),
                  technical_score |->
                      calculate_technical_score(audit_results.technical_factors)])

\* the try block of audit_website from raise_for_status() on
audit_response(domain, response, soup, probes, now) ==
    IF response.status_code >= 400              \* raise_for_status()
    THEN error_result(domain, "HTTPError", response)
    ELSE scored([domain |-> domain,
                 status_code |-> response.status_code,
                 schema_org |-> analyze_schema_org(soup.scripts),
                 meta_tags |-> analyze_meta_tags(soup.meta),
                 content_structure |->
                     analyze_content_structure(soup.scripts, soup.content),
                 technical_factors |->
                     analyze_technical_factors(soup.tech, domain, response, probes),
                 timestamp |-> now])

\* the domain argument with "https://" put before it where it has no scheme
with_scheme(url) == IF url.scheme \in {"http", "https"} THEN url
                    ELSE [url EXCEPT !.scheme = "https"]

\* audit_website taking the load time from the clock (in seconds) in place of
\* response.elapsed
audit_website_clock_load_time(request) ==
    IF request.exc # "none"
    THEN error_result(with_scheme(request.url), request.exc, request.response)
    ELSE audit_response(with_scheme(request.url),
                        [request.response EXCEPT !.elapsed_ms = 1000 * request.now],
                        request.page, request.probes, request.now)

audit_website(request) ==
    IF request.exc # "none"
    THEN error_result(with_scheme(request.url), request.exc, request.response)
    ELSE audit_response(with_scheme(request.url), request.response, request.page,
                        request.probes, request.now)

(***************************************************************************)
(* JSON-LD blocks the pages carry                                          *)
(***************************************************************************)
Typed(type, pairs) == JDict(<< <<"@type", JText(type)>> >> \o pairs)
Texts(props) == [i \in DOMAIN props |-> <<props[i], JText("text")>>]
WithContext(d) == JDict(<< <<"@context", JText("https://schema.org")>> >> \o d.kv)

\* an Organization with the required properties whose index is in S
OrgWith(S) ==
    Typed("Organization",
          Texts(SelectSeq(llm_valuable_schemas.Organization,
                          LAMBDA prop : \E i \in S :
                                           llm_valuable_schemas.Organization[i] = prop)))
OrgNameUrl == WithContext(OrgWith({1, 2}))
OrgFull == WithContext(OrgWith(1..5))
Question == Typed("Question",
                  << <<"name", JText("text")>>,
                     <<"acceptedAnswer", Typed("Answer", Texts(<<"text">>))>> >>)
FAQPageOf(n) == WithContext(Typed("FAQPage",
                                  << <<"mainEntity", JList([i \in 1..n |-> Question])>> >>))
FAQPageNamed == WithContext(Typed("FAQPage",
                                  Texts(<<"name", "url">>)
                                  \o << <<"mainEntity", Question>> >>))
FAQPageInGraph == JDict(<< <<"@context", JText("https://schema.org")>>,
                           <<"@graph", JList(<<Typed("FAQPage",
                                 << <<"mainEntity", JList(<<Question>>)>> >>)>>)>> >>)
ProductRich ==
    WithContext(Typed("Product",
        Texts(<<"name", "description", "image">>)
        \o << <<"offers", Typed("Offer", Texts(<<"price", "priceCurrency">>))>>,
              <<"brand", Typed("Brand", Texts(<<"name">>))>>,
              <<"review", JList(<<Typed("Review", Texts(<<"reviewRating", "author">>))>>)>> >>))
ArticleRich ==
    WithContext(Typed("Article",
        Texts(<<"headline", "datePublished", "description", "articleBody", "keywords">>)
        \o << <<"author", Typed("Person", Texts(<<"name", "jobTitle", "sameAs">>))>>,
              <<"publisher", Typed("Organization", Texts(<<"name", "logo">>))>> >>))
BreadcrumbBlock ==
    WithContext(Typed("BreadcrumbList",
        << <<"itemListElement",
             JList(<<Typed("ListItem", Texts(<<"position", "item">>))>>)>> >>))
GraphBlock(items) == JDict(<< <<"@context", JText("https://schema.org")>>,
                              <<"@graph", JList(items)>> >>)
\* "@type": ["Organization", "Corporation"]
ListTyped == JDict(<< <<"@type", JList(<<JText("Organization"), JText("Corporation")>>)>>,
                      <<"name", JText("text")>> >>)
\* a WebPage whose key holds value
PageWith(key, value) == Typed("WebPage", << <<"name", JText("text")>>, <<key, value>> >>)

Json(data) == [text |-> "json", data |-> data]
InvalidScript == [text |-> "invalid", data |-> JNull]
EmptyScript == [text |-> "none", data |-> JNull]

(***************************************************************************)
(* The inputs of the analyzers: pages by the features the scores read      *)
(***************************************************************************)
MaxScripts == 3
ScoreStep == 20
MaxTitle == 100

ScriptPool ==
    {Json(OrgNameUrl), Json(ProductRich), Json(ArticleRich), Json(FAQPageOf(3)),
     Json(BreadcrumbBlock), Json(GraphBlock(<<OrgWith({1}), Question>>)),
     Json(ListTyped), InvalidScript}
RECURSIVE SeqsUpTo(_, _)
SeqsUpTo(S, n) ==
    IF n = 0 THEN {<<>>}
    ELSE LET shorter == SeqsUpTo(S, n - 1)
         IN  shorter \cup {Append(q, x) : q \in {r \in shorter : Len(r) = n - 1}, x \in S}
ScriptLists == SeqsUpTo(ScriptPool, MaxScripts)
FaqBlocks == {Json(FAQPageOf(1)), Json(FAQPageOf(3)), Json(FAQPageNamed),
              Json(FAQPageInGraph)}

OgNone == <<>>
OgTitle == ("og:title" :> "text")
OgEssential == [name \in OG_ESSENTIAL |-> IF name = "og:type" THEN "website" ELSE "text"]
OgArticle == [name \in OG_ESSENTIAL \cup {"og:image:width", "og:image:height"} |->
                 CASE name = "og:type" -> "article"
                   [] name = "og:image:width" -> "1200"
                   [] name = "og:image:height" -> "630"
                   [] OTHER -> "text"]
OgSmallImage == [name \in {"og:title", "og:image", "og:image:width", "og:image:height"} |->
                    CASE name = "og:image:width" -> "600"
                      [] name = "og:image:height" -> "auto"
                      [] OTHER -> "text"]

MetaHeads ==
    {[title_length |-> t, title_sep |-> sep, description_length |-> d[1],
      description_words |-> d[2]] :
        t \in {0, 25, 30, 45, 55, 63, 72, 78, 83, 90}, sep \in BOOLEAN,
        d \in {<<0, 0>>, <<90, 12>>, <<110, 16>>, <<130, 20>>, <<155, 25>>, <<165, 10>>,
               <<175, 28>>, <<185, 30>>, <<195, 30>>, <<210, 32>>, <<230, 35>>}}
MetaRests ==
    {[keywords |-> kw[1], keyword_matches |-> kw[2], canonical |-> canonical,
      robots |-> robots, viewport |-> viewport, og_tags |-> og, twitter_tags |-> tw,
      article_tags |-> art] :
        kw \in {<<FALSE, 0>>, <<TRUE, 2>>}, canonical \in BOOLEAN,
        robots \in {"none", "index", "noindex"}, viewport \in {"none", "device"},
        og \in {OgNone, OgTitle, OgEssential, OgArticle},
        tw \in {{}, {"twitter:card"}, TWITTER_ESSENTIAL}, art \in {0, 6}}
MetaRestBare == [keywords |-> FALSE, keyword_matches |-> 0, canonical |-> FALSE,
                 robots |-> "none", viewport |-> "none", og_tags |-> OgNone,
                 twitter_tags |-> {}, article_tags |-> 0]
MetaRestRich == [keywords |-> TRUE, keyword_matches |-> 1, canonical |-> TRUE,
                 robots |-> "index", viewport |-> "plain", og_tags |-> OgSmallImage,
                 twitter_tags |-> TWITTER_ESSENTIAL, article_tags |-> 2]
Join(a, b) == a @@ b
MetaInputs ==
    {Join(h, r) : h \in MetaHeads, r \in {MetaRestBare, MetaRestRich}}
    \cup {Join(h, r) : h \in {x \in MetaHeads : /\ x.title_length \in {0, 55}
                                                /\ x.description_length \in {0, 155}
                                                /\ x.title_sep},
                       r \in MetaRests}

ContentHeads ==
    {[headings |-> h, word_count |-> w[1], grade10 |-> w[2]] :
        h \in {<<>>, <<1>>, <<2>>, <<1, 2>>, <<2, 1>>, <<1, 3>>, <<1, 2, 3>>, <<1, 2, 4, 6>>},
        w \in {<<0, 0>>, <<120, -20>>, <<300, 55>>, <<500, 80>>, <<800, 50>>, <<800, 60>>,
               <<800, 100>>, <<800, 120>>, <<1000, 110>>, <<1500, 130>>}}
ContentBodies ==
    {[lists |-> l[1], list_items |-> l[2], tables |-> tables, images |-> img[1],
      images_with_alt |-> img[2], dl_faq |-> faq[1], heading_faq |-> faq[2],
      paragraphs |-> st[1], semantic |-> st[2], patterns |-> st[3], entities |-> st[4]] :
        l \in {<<0, 0>>, <<1, 5>>, <<2, 12>>, <<3, 10>>}, tables \in {0, 1},
        img \in {<<0, 0>>, <<2, 0>>, <<2, 1>>, <<3, 1>>, <<3, 3>>},
        faq \in {<<0, 0>>, <<1, 0>>, <<0, 2>>, <<1, 2>>},
        st \in {<<0, <<>>, 0, FALSE>>, <<10, <<1, 1, 1>>, 1, TRUE>>,
                <<60, <<5, 6>>, 3, FALSE>>}}
ContentBodyBare == [lists |-> 0, list_items |-> 0, tables |-> 0, images |-> 0,
                    images_with_alt |-> 0, dl_faq |-> 0, heading_faq |-> 0,
                    paragraphs |-> 0, semantic |-> <<>>, patterns |-> 0,
                    entities |-> FALSE]
ContentInputs ==
    {Join(h, b) : h \in ContentHeads, b \in {ContentBodyBare}}
    \cup {Join(h, b) : h \in {x \in ContentHeads : /\ x.headings \in {<<>>, <<1, 2>>}
                                                   /\ x.word_count \in {0, 1500}},
                       b \in {x \in ContentBodies : x.dl_faq = 0 \/ x.patterns > 0}}

TechInputs ==
    {[soup_tech |-> [viewport |-> v[1], responsive |-> v[2], internal_links |-> ln[1],
                     external_links |-> ln[2]],
      domain |-> [scheme |-> scheme, host |-> "example.com"],
      response |-> [status_code |-> 200, size_kb |-> size, elapsed_ms |-> elapsed],
      probes |-> [sitemap |-> pr[1], robots |-> pr[2]]] :
        v \in {<<"none", FALSE>>, <<"plain", TRUE>>, <<"device", FALSE>>, <<"device", TRUE>>},
        ln \in {<<0, 0>>, <<3, 1>>, <<5, 3>>, <<10, 5>>, <<20, 0>>, <<25, 8>>},
        scheme \in {"http", "https"},
        size \in {100, 500, 1000, 2001, 3500},
        elapsed \in {100, 501, 2000, 3000, 3001},
        pr \in BOOLEAN \X BOOLEAN}

ScoreGrid == {x \in 0..100 : x % ScoreStep = 0} \cup {69, 70, 79, 80, 89, 90, 100}
\* the 4-tuples of the grid, each component alone over 0..100, and two
\* exact halves that binary64 rounds away from the even neighbour
ScoreInputs ==
    (ScoreGrid \X ScoreGrid \X ScoreGrid \X ScoreGrid)
    \cup {<<x, 0, 0, 0>> : x \in 0..100} \cup {<<0, x, 0, 0>> : x \in 0..100}
    \cup {<<0, 0, x, 0>> : x \in 0..100} \cup {<<0, 0, 0, x>> : x \in 0..100}
    \cup {<<0, 0, 1, 82>>, <<0, 0, 18, 1>>}

\* blocks for _analyze_schema_completeness: Organizations alone, nested, in lists
\* and in @graph
OrgSets == SUBSET (1..5)
CompletenessInputs ==
    {OrgWith(S) : S \in OrgSets}
    \cup {PageWith("publisher", OrgWith(S)) : S \in OrgSets}
    \cup {GraphBlock(<<OrgWith(S), OrgWith(T)>>) : S \in {{}, {1, 2}, 1..5}, T \in OrgSets}
    \cup {PageWith("about", JList(<<OrgWith(S), Question>>)) : S \in OrgSets}
    \cup {PageWith("mainEntity", JDict(<< <<"item", OrgWith({1, 2})>> >>)),
          PageWith("about", JList(<<OrgWith({1}), OrgWith({1, 2, 3})>>)),
          JList(<<OrgWith({1, 2})>>), ListTyped, OrgNameUrl, FAQPageOf(3), ProductRich}

(***************************************************************************)
(* The scoring functions applied to their inputs.  fn names the function,  *)
(* arg its input, ret its result once pc = "done".                         *)
(***************************************************************************)
InitScores ==
    /\ services = <<>>
    /\ pc = "ready"
    /\ ret = <<>>
    /\ \/ fn = "schema" /\ arg \in ScriptLists
       \/ fn = "meta" /\ arg \in MetaInputs
       \/ fn = "content" /\ arg \in {<<scripts, c>> : scripts \in {<<>>, <<Json(FAQPageOf(3))>>},
                                                      c \in ContentInputs}
       \/ fn = "technical" /\ arg \in TechInputs
       \/ fn = "overall" /\ arg \in ScoreInputs
       \/ fn = "completeness" /\ arg \in CompletenessInputs
       \/ fn = "title" /\ arg \in 1..MaxTitle

Return(f, value) ==
    /\ pc = "ready"
    /\ fn = f
    /\ ret' = value
    /\ pc' = "done"
    /\ UNCHANGED <<fn, arg, services>>

CalcSchemaScore == Return("schema", calculate_schema_score(analyze_schema_org(arg)))

CalcMetaScore == Return("meta", calculate_meta_score(analyze_meta_tags(arg)))

CalcContentScore ==
    Return("content", calculate_content_score(analyze_content_structure(arg[1], arg[2])))

CalcTechnicalScore ==
    Return("technical",
           calculate_technical_score(
               analyze_technical_factors(arg.soup_tech, arg.domain, arg.response,
                                         arg.probes)))

CalcOverallScore ==
    Return("overall", calculate_overall_score(arg[1], arg[2], arg[3], arg[4]))

\* one component score is raised, to the next score of the inputs, and the
\* overall score is calculated again
RaiseComponent ==
    /\ pc = "done"
    /\ fn = "overall"
    /\ \E i \in 1..4 :
          \E v \in {arg[i] + 1} \cup {x \in ScoreGrid : \A y \in ScoreGrid : y > arg[i] => x <= y} :
             /\ v > arg[i]
             /\ [arg EXCEPT ![i] = v] \in ScoreInputs
             /\ arg' = [arg EXCEPT ![i] = v]
    /\ ret' = calculate_overall_score(arg'[1], arg'[2], arg'[3], arg'[4])
    /\ UNCHANGED <<pc, fn, services>>

CalcCompleteness ==
    Return("completeness", analyze_schema_completeness(arg, llm_valuable_schemas))

\* the two gradings of a title's length: its share of the basic completeness
\* (weight 0.4) and its title-quality points
GradeTitle ==
    Return("title", [credit |-> basic_title_credit(arg, F_04),
                     points |-> title_quality_points(arg)])

\* the page gains one more FAQPage script, before script i, and is scored again
AddFaqScript ==
    /\ pc = "done"
    /\ fn = "schema"
    /\ Len(arg) < MaxScripts
    /\ \E F \in FaqBlocks, i \in 1..(Len(arg) + 1) :
          /\ arg' = SubSeq(arg, 1, i - 1) \o <<F>> \o SubSeq(arg, i, Len(arg))
          /\ ret' = calculate_schema_score(analyze_schema_org(arg'))
    /\ UNCHANGED <<pc, fn, services>>

NextScores ==
    \/ CalcSchemaScore
    \/ CalcMetaScore
    \/ CalcContentScore
    \/ CalcTechnicalScore
    \/ CalcOverallScore
    \/ CalcCompleteness
    \/ GradeTitle
    \/ AddFaqScript

SpecScores == InitScores /\ [][NextScores]_vars

\* the overall score of component scores that rise one at a time
InitOverall ==
    /\ services = <<>>
    /\ pc = "ready"
    /\ ret = <<>>
    /\ fn = "overall"
    /\ arg \in ScoreInputs

NextOverall ==
    \/ CalcOverallScore
    \/ RaiseComponent

SpecOverall == InitOverall /\ [][NextOverall]_vars

(***************************************************************************)
(* The requests audit_website is called with                               *)
(***************************************************************************)
MaxNow == 2

\* a page whose viewport tag is the one its meta tags have
Page(scripts, meta, content, responsive, links) ==
    [scripts |-> scripts, meta |-> meta, content |-> content,
     tech |-> [viewport |-> meta.viewport, responsive |-> responsive,
               internal_links |-> links[1], external_links |-> links[2]]]

\* <html></html>
EmptyMeta == Join([title_length |-> 0, title_sep |-> FALSE, description_length |-> 0,
                   description_words |-> 0], MetaRestBare)
EmptyContent == Join([headings |-> <<>>, word_count |-> 0, grade10 |-> 0],
                     ContentBodyBare)
EmptyPage == Page(<<>>, EmptyMeta, EmptyContent, FALSE, <<0, 0>>)

Request(url, exc, response, page, probes, now) ==
    [url |-> url, exc |-> exc, response |-> response, page |-> page,
     probes |-> probes, now |-> now]
Url(scheme) == [scheme |-> scheme, host |-> "example.com"]
Response(status_code, size_kb, elapsed_ms) ==
    [status_code |-> status_code, size_kb |-> size_kb, elapsed_ms |-> elapsed_ms]
Probes(sitemap, robots) == [sitemap |-> sitemap, robots |-> robots]

\* fetches that fail: session.get raises, or the status is an error status
FailedRequests ==
    {Request(Url(scheme), exc, Response(0, 0, 0), EmptyPage, Probes(FALSE, FALSE), 1) :
        scheme \in {"", "http", "https"},
        exc \in (DOMAIN exception_classes) \ {"HTTPError"}}
    \cup {Request(Url(scheme), "none", Response(status, 1, 100), EmptyPage,
                  Probes(FALSE, FALSE), 1) :
            scheme \in {"", "https"}, status \in {403, 404, 500, 503}}

EmptyRequests ==
    {Request(Url(scheme), "none", Response(200, 0, elapsed), EmptyPage,
             Probes(pr[1], pr[2]), now) :
        scheme \in {"", "http", "https"}, elapsed \in {100, 3001},
        pr \in BOOLEAN \X BOOLEAN, now \in 1..MaxNow}

\* pages of every mix of strong and weak parts
MixedScripts ==
    {<<>>, <<InvalidScript>>, <<Json(FAQPageOf(3))>>,
     <<Json(OrgNameUrl), Json(ProductRich)>>,
     <<Json(ArticleRich), Json(BreadcrumbBlock), Json(OrgFull)>>}
MixedMetas ==
    {EmptyMeta,
     Join([title_length |-> 90, title_sep |-> FALSE, description_length |-> 90,
           description_words |-> 12], MetaRestRich),
     Join([title_length |-> 55, title_sep |-> TRUE, description_length |-> 155,
           description_words |-> 25],
          [MetaRestRich EXCEPT !.viewport = "device", !.og_tags = OgArticle,
                               !.keyword_matches = 2]),
     Join([title_length |-> 25, title_sep |-> TRUE, description_length |-> 230,
           description_words |-> 35],
          [MetaRestBare EXCEPT !.robots = "noindex", !.og_tags = OgTitle,
                               !.twitter_tags = {"twitter:card"}])}
MixedContents ==
    {EmptyContent,
     Join([headings |-> <<2, 1>>, word_count |-> 120, grade10 |-> -20], ContentBodyBare),
     Join([headings |-> <<1, 2, 3>>, word_count |-> 1500, grade10 |-> 80],
          [lists |-> 3, list_items |-> 10, tables |-> 1, images |-> 3,
           images_with_alt |-> 3, dl_faq |-> 1, heading_faq |-> 2, paragraphs |-> 60,
           semantic |-> <<5, 6>>, patterns |-> 3, entities |-> TRUE]),
     Join([headings |-> <<1, 3>>, word_count |-> 500, grade10 |-> 130],
          [lists |-> 1, list_items |-> 5, tables |-> 0, images |-> 2,
           images_with_alt |-> 0, dl_faq |-> 0, heading_faq |-> 0, paragraphs |-> 10,
           semantic |-> <<1, 1, 1>>, patterns |-> 1, entities |-> FALSE])}
MixedTransports ==
    {<<"https", TRUE, <<25, 8>>, Response(200, 100, 100), Probes(TRUE, TRUE)>>,
     <<"http", FALSE, <<0, 0>>, Response(200, 3500, 3001), Probes(FALSE, FALSE)>>,
     <<"", TRUE, <<5, 0>>, Response(200, 1000, 2000), Probes(TRUE, FALSE)>>}
MixedRequests ==
    {Request(Url(t[1]), "none", t[4], Page(scripts, meta, content, t[2], t[3]), t[5], 1) :
        scripts \in MixedScripts, meta \in MixedMetas, content \in MixedContents,
        t \in MixedTransports}

\* pages with a 55-character title, a 155-character description, the essential
\* Open Graph and Twitter tags, an H1 heading the hierarchy, one FAQPage script
\* of 3 questions, https, the device-width viewport with responsive CSS, at most
\* 500 KB and at most 500 ms
IsScenario(request) ==
    /\ request.exc = "none"
    /\ request.response.status_code < 400
    /\ request.url.scheme \in {"", "https"}
    /\ request.response.size_kb <= 500
    /\ request.response.elapsed_ms <= 500
    /\ request.page.scripts = <<Json(FAQPageOf(3))>>
    /\ request.page.meta.title_length = 55
    /\ request.page.meta.description_length = 155
    /\ OG_ESSENTIAL \subseteq DOMAIN request.page.meta.og_tags
    /\ TWITTER_ESSENTIAL \subseteq request.page.meta.twitter_tags
    /\ request.page.meta.viewport = "device"
    /\ request.page.tech.responsive
    /\ request.page.content.headings \in {<<1>>, <<1, 2>>, <<1, 2, 3>>}
ScenarioMetas ==
    {Join([title_length |-> 55, title_sep |-> sep, description_length |-> 155,
           description_words |-> 25], r) :
        sep \in BOOLEAN,
        r \in {x \in MetaRests : /\ x.viewport = "device"
                                 /\ x.og_tags \in {OgEssential, OgArticle}
                                 /\ x.twitter_tags = TWITTER_ESSENTIAL}}
ScenarioContents ==
    {c \in ContentInputs : /\ c.headings \in {<<1>>, <<1, 2>>, <<1, 2, 3>>}
                           /\ c.tables = 0
                           /\ c.images_with_alt = c.images
                           /\ c.heading_faq = 0}
ScenarioTransports ==
    {<<scheme, TRUE, links, Response(200, size, elapsed), Probes(pr[1], pr[2])>> :
        scheme \in {"", "https"}, links \in {<<0, 0>>, <<5, 3>>, <<25, 8>>},
        size \in {0, 500}, elapsed \in {100, 500}, pr \in BOOLEAN \X BOOLEAN}
BareScenarioMeta ==
    Join([title_length |-> 55, title_sep |-> FALSE, description_length |-> 155,
          description_words |-> 25],
         [MetaRestBare EXCEPT !.viewport = "device", !.og_tags = OgEssential,
                              !.twitter_tags = TWITTER_ESSENTIAL])
BareScenarioContent ==
    Join([headings |-> <<1>>, word_count |-> 0, grade10 |-> 0], ContentBodyBare)
BareScenarioTransport ==
    <<"https", TRUE, <<0, 0>>, Response(200, 500, 500), Probes(FALSE, FALSE)>>
ScenarioParts ==
    {<<meta, BareScenarioContent, BareScenarioTransport>> : meta \in ScenarioMetas}
    \cup {<<BareScenarioMeta, content, BareScenarioTransport>> :
             content \in ScenarioContents}
    \cup {<<BareScenarioMeta, BareScenarioContent, t>> : t \in ScenarioTransports}
    \cup {<<meta, content, t>> :
             meta \in {m \in ScenarioMetas : m.robots = "noindex" /\ ~m.canonical
                                             /\ m.article_tags = 0},
             content \in {c \in ScenarioContents : /\ c.word_count = 1500
                                                   /\ c.lists = 3 /\ c.images = 3
                                                   /\ c.dl_faq = 1},
             t \in {x \in ScenarioTransports : x[1] = "https" /\ x[4].size_kb = 500
                                               /\ x[4].elapsed_ms = 500
                                               /\ x[5].sitemap = x[5].robots}}
ScenarioRequests ==
    {Request(Url(p[3][1]), "none", p[3][4],
             Page(<<Json(FAQPageOf(3))>>, p[1], p[2], p[3][2], p[3][3]), p[3][5], 1) :
        p \in ScenarioParts}

Requests == FailedRequests \cup EmptyRequests \cup MixedRequests \cup ScenarioRequests

(***************************************************************************)
(* The service auditing one request after another                          *)
(***************************************************************************)
InitAudit ==
    /\ services = <<>>
    /\ pc = "idle"
    /\ fn = "audit_website"
    /\ arg = <<>>
    /\ ret = <<>>

AuditWebsite ==
    /\ pc = "idle"
    /\ \E request \in Requests :
          /\ arg' = request
          /\ ret' = audit_website(request)
    /\ pc' = "returned"
    /\ UNCHANGED <<fn, services>>

\* the caller takes the result
TakeResult ==
    /\ pc = "returned"
    /\ pc' = "idle"
    /\ arg' = <<>>
    /\ ret' = <<>>
    /\ UNCHANGED <<fn, services>>

NextAudit ==
    \/ AuditWebsite
    \/ TakeResult

SpecAudit == InitAudit /\ [][NextAudit]_vars

(***************************************************************************)
(* The service auditing twice: arg and ret are the requests and the        *)
(* results so far                                                          *)
(***************************************************************************)
BareScenarioPage ==
    Page(<<Json(FAQPageOf(3))>>, BareScenarioMeta, BareScenarioContent, TRUE, <<0, 0>>)
TwinRequests ==
    {Request(Url("https"), "none", Response(200, 100, elapsed), page,
             Probes(found, found), now) :
        elapsed \in {100, 2000}, page \in {EmptyPage, BareScenarioPage},
        found \in BOOLEAN, now \in 1..MaxNow}

InitTwoAudits ==
    /\ services = <<>>
    /\ pc = "idle"
    /\ fn = "audit_website"
    /\ arg = <<>>
    /\ ret = <<>>

FirstAudit ==
    /\ pc = "idle"
    /\ \E request \in TwinRequests :
          /\ arg' = <<request>>
          /\ ret' = <<audit_website(request)>>
    /\ pc' = "first"
    /\ UNCHANGED <<fn, services>>

SecondAudit ==
    /\ pc = "first"
    /\ \E request \in TwinRequests :
          /\ arg' = Append(arg, request)
          /\ ret' = Append(ret, audit_website(request))
    /\ pc' = "second"
    /\ UNCHANGED <<fn, services>>

NextTwoAudits ==
    \/ FirstAudit
    \/ SecondAudit

SpecTwoAudits == InitTwoAudits /\ [][NextTwoAudits]_vars

(***************************************************************************)
(* Properties of the scoring functions                                     *)
(***************************************************************************)
\* C1: each of the four component scores, for every analysis the analyzers
\* produce, and the overall score, for every four component scores in 0..100,
\* is an integer in 0..100.
C1_ScoresWithinRange ==
    (pc = "done" /\ fn \in {"schema", "meta", "content", "technical", "overall"})
        => ret \in 0..100

\* a meta analysis whose points exceed 100 was scored 100
C1_CappedMetaScore ==
    /\ pc = "done"
    /\ fn = "meta"
    /\ meta_points(analyze_meta_tags(arg)) > 100
    /\ ret = 100

\* 20 * (0.35 schema + 0.25 meta + 0.30 content + 0.10 technical + bonus), capped
\* at 20 * 100
TwentiethsOfFinalScore(scores) ==
    LET bonus == (IF scores[1] >= 80 /\ scores[3] >= 80 THEN 5 ELSE 0)
                 + (IF \A i \in 1..4 : scores[i] >= 70 THEN 3 ELSE 0)
                 + (IF scores[2] >= 90 /\ scores[1] >= 70 THEN 2 ELSE 0)
    IN  Min(2000, 7 * scores[1] + 5 * scores[2] + 6 * scores[3] + 2 * scores[4]
                  + 20 * bonus)

\* C2: the overall score is an integer nearest to min(100, weighted sum + bonus):
\* it is at most one half away from it.  (100,100,100,100) gives 100, (0,0,0,0)
\* gives 0, and (x,0,0,0) gives at least what (0,0,x,0) gives.
C2_OverallIsNearestInteger ==
    (pc = "done" /\ fn = "overall") =>
        /\ 20 * ret - TwentiethsOfFinalScore(arg) \in -10..10
        /\ arg = <<100, 100, 100, 100>> => ret = 100
        /\ arg = <<0, 0, 0, 0>> => ret = 0
        /\ (arg[1] > 0 /\ arg[2] = 0 /\ arg[3] = 0 /\ arg[4] = 0)
               => ret >= calculate_overall_score(0, 0, arg[1], 0)

\* a final score between two integers, with bonuses, was rounded up
C2_RoundedUp ==
    /\ pc = "done"
    /\ fn = "overall"
    /\ arg = <<90, 89, 80, 79>>
    /\ ret = 94

\* the typed entities process_entity is called on, in the order of the calls,
\* starting at a typed entity
RECURSIVE VisitedFrom(_)
VisitedFrom(entity) ==
    LET typed(v) == IsDict(v) /\ Has(v, "@type")
        below(v) == IF typed(v) THEN VisitedFrom(v)
                    ELSE IF IsList(v)
                    THEN SeqCat([j \in DOMAIN v.el |->
                                   IF typed(v.el[j]) THEN VisitedFrom(v.el[j]) ELSE <<>>])
                    ELSE <<>>
    IN  <<entity>> \o SeqCat([i \in DOMAIN entity.kv |-> below(entity.kv[i][2])])
Visited(schema_data) ==
    IF ~IsDict(schema_data) THEN <<>>
    ELSE (IF Has(schema_data, "@type") THEN VisitedFrom(schema_data) ELSE <<>>)
         \o (IF HasGraph(schema_data)
             THEN LET g == Get(schema_data, "@graph").el
                  IN  SeqCat([j \in DOMAIN g |->
                                 IF IsDict(g[j]) /\ Has(g[j], "@type")
                                 THEN VisitedFrom(g[j]) ELSE <<>>])
             ELSE <<>>)
\* every dict with an "@type" anywhere in a JSON value
RECURSIVE EntitiesIn(_)
EntitiesIn(v) ==
    (IF IsDict(v) /\ Has(v, "@type") THEN {v} ELSE {})
    \cup UNION {EntitiesIn(v.kv[i][2]) : i \in DOMAIN v.kv}
    \cup UNION {EntitiesIn(v.el[j]) : j \in DOMAIN v.el}
IsOfType(entity, type) == Get(entity, "@type") = JText(type)
\* the binary64 nearest to present / required
RequiredRatio(entity, type) ==
    LET required == llm_valuable_schemas[type]
    IN  FDiv(FromInt(Cardinality({i \in DOMAIN required : Has(entity, required[i])})),
             FromInt(Len(required)))

\* C7 as stated: every entity of a listed type, wherever it is in the block, has
\* its own ratio reported under its type.
C7_EveryEntityReported ==
    (pc = "done" /\ fn = "completeness" /\ ~ret.raise) =>
        \A type \in DOMAIN llm_valuable_schemas :
            \A entity \in {e \in EntitiesIn(arg) : IsOfType(e, type)} :
                /\ type \in DictKeys(ret.scores)
                /\ DictGet(ret.scores, type) = RequiredRatio(entity, type)

\* C7: completeness[type] is present / required of the entity of that type that
\* process_entity visited last (the top-level dict, typed dicts that are property
\* values or elements of list-valued properties of a visited entity, and the
\* items of the top-level @graph); a type no visited entity has gets no entry.
\* An Organization with exactly name and url gets 0.4.
C7_LastVisitedEntityReported ==
    (pc = "done" /\ fn = "completeness" /\ ~ret.raise) =>
        /\ \A type \in DOMAIN llm_valuable_schemas :
              LET of_type == SelectSeq(Visited(arg), LAMBDA e : IsOfType(e, type))
              IN  IF of_type = <<>> THEN type \notin DictKeys(ret.scores)
                  ELSE DictGet(ret.scores, type)
                          = RequiredRatio(of_type[Len(of_type)], type)
        /\ arg \in {OrgWith({1, 2}), OrgNameUrl}
              => DictGet(ret.scores, "Organization") = Lit(4, 10)

\* two Organizations in one @graph, the first with name and url, the second
\* complete: the entry is the second's
C7_LaterEntityWins ==
    /\ pc = "done"
    /\ fn = "completeness"
    /\ arg = GraphBlock(<<OrgWith({1, 2}), OrgWith(1..5)>>)
    /\ ret.scores = << <<"Organization", FromInt(1)>> >>

\* C8: adding a valid FAQPage block to a document as one more JSON-LD script
\* never lowers its schema score.
C8_FaqNeverLowersSchemaScore ==
    [][(pc = "done" /\ pc' = "done" /\ fn = "schema") => ret' >= ret]_vars

\* a page of two FAQPage scripts gained a third, a FAQPage with name and url
C8_ThirdFaqAdded ==
    /\ pc = "done"
    /\ fn = "schema"
    /\ arg = <<Json(FAQPageOf(3)), Json(FAQPageNamed), Json(FAQPageOf(3))>>
    /\ ret = 15 + 15 + 10 + 10

\* C9 as stated: a title of 90 characters is graded below full credit, above
\* zero, and in the "acceptable" band (weight * 0.6; 5 points) in both gradings.
C9_NinetyIsAcceptable ==
    (pc = "done" /\ fn = "title" /\ arg = 90) =>
        /\ FLt(<<>>, ret.credit) /\ FLt(ret.credit, F_04)
        /\ 0 < ret.points /\ ret.points < 10
        /\ ret.credit = FMul(F_04, F_06)
        /\ ret.points = 5

\* C9: a title of 90 characters is graded below full credit and above zero in
\* both gradings, in the lowest band (weight * 0.3; 2 points): the "acceptable"
\* band ends at 85 characters in the basic completeness and at 80 in the
\* title-quality points.
C9_NinetyIsLowestBand ==
    /\ (pc = "done" /\ fn = "title" /\ arg = 90) =>
          /\ FLt(<<>>, ret.credit) /\ FLt(ret.credit, F_04)
          /\ 0 < ret.points /\ ret.points < 10
          /\ ret.credit = FMul(F_04, F_03)
          /\ ret.points = 2
    /\ (pc = "done" /\ fn = "title" /\ ret.credit = FMul(F_04, F_06))
          => arg \in (30..85) \ (40..75)
    /\ (pc = "done" /\ fn = "title" /\ ret.points = 5) => arg \in (30..80) \ (40..70)

\* the 90-character title graded
C9_NinetyGraded ==
    /\ pc = "done"
    /\ fn = "title"
    /\ arg = 90
    /\ ret.points = 2

(***************************************************************************)
(* Properties of audit_website                                             *)
(***************************************************************************)
Succeeded(result) == "error" \notin DOMAIN result
OfPriority(recommendations, priority) ==
    SelectSeq(recommendations, LAMBDA r : r.priority = priority)
Rank(priority) == CASE priority = "high" -> 0 [] priority = "medium" -> 1
                    [] priority = "low" -> 2
CategoryRank(category) == CASE category = "schema" -> 0 [] category = "meta" -> 1
                            [] category = "content" -> 2 [] category = "technical" -> 3

\* C3: the recommendations are ordered high, medium, low; within one priority
\* they keep the order in which their checks were evaluated: schema, then meta,
\* then content, then technical, each in the order of its checks.
C3_RecommendationsOrdered ==
    (pc = "returned" /\ Succeeded(ret)) =>
        LET recs == ret.recommendations
        IN  /\ \A i, j \in DOMAIN recs :
                  i < j => /\ Rank(recs[i].priority) <= Rank(recs[j].priority)
                           /\ recs[i].priority = recs[j].priority
                                 => CategoryRank(recs[i].category)
                                       <= CategoryRank(recs[j].category)
            /\ \A priority \in {"high", "medium", "low"} :
                  OfPriority(recs, priority)
                      = OfPriority(appended_recommendations(ret), priority)

\* a report whose checks fired in another order than the sorted one, with all
\* three priorities
C3_SortMovedItems ==
    /\ pc = "returned"
    /\ Succeeded(ret)
    /\ ret.recommendations # appended_recommendations(ret)
    /\ \A priority \in {"high", "medium", "low"} :
          Len(OfPriority(ret.recommendations, priority)) >= 2

IsEmptyDocument(request) ==
    /\ request.exc = "none"
    /\ request.response.status_code < 400
    /\ request.page = EmptyPage

\* C4: an empty HTML document gets schema, meta and content scores of 0, a
\* high-priority meta recommendation for the missing title and a high-priority
\* content recommendation for the missing H1.
C4_EmptyDocument ==
    (pc = "returned" /\ IsEmptyDocument(arg)) =>
        /\ ret.component_scores.schema_score = 0
        /\ ret.component_scores.meta_score = 0
        /\ ret.component_scores.content_score = 0
        /\ \E i \in DOMAIN ret.recommendations :
              /\ ret.recommendations[i].priority = "high"
              /\ ret.recommendations[i].category = "meta"
              /\ ret.recommendations[i].issue = "Missing title tag"
        /\ \E i \in DOMAIN ret.recommendations :
              /\ ret.recommendations[i].priority = "high"
              /\ ret.recommendations[i].category = "content"
              /\ ret.recommendations[i].issue = "Missing H1 heading"

\* the empty document fetched over https with both probes answered
C4_EmptyDocumentAudited ==
    /\ pc = "returned"
    /\ IsEmptyDocument(arg)
    /\ arg.probes = Probes(TRUE, TRUE)
    /\ ret.component_scores.technical_score = 20 + 10 + 10 + 10 + 10

FetchFailed(request) == request.exc # "none" \/ request.response.status_code >= 400
Raised(request) == IF request.exc # "none" THEN request.exc ELSE "HTTPError"

\* C6: when the fetch fails the result has llm_friendly_score 0, recommendations,
\* an error text, and error_type 'connection_error' for every ConnectionError,
\* 'timeout' for every Timeout (a connect timeout included), 'http_error' for
\* every HTTPError and 'unexpected_error' for any other exception.
C6_ErrorTypeOfEveryClass ==
    (pc = "returned" /\ FetchFailed(arg)) =>
        LET classes == exception_classes[Raised(arg)]
        IN  /\ ret.llm_friendly_score = 0
            /\ ret.recommendations # <<>>
            /\ "error" \in DOMAIN ret
            /\ "ConnectionError" \in classes => ret.error_type = "connection_error"
            /\ "Timeout" \in classes => ret.error_type = "timeout"
            /\ "HTTPError" \in classes => ret.error_type = "http_error"
            /\ classes \cap {"ConnectionError", "Timeout", "HTTPError"} = {}
                  => ret.error_type = "unexpected_error"

\* C10 as stated: every page of the scenario scores at least 80.
C10_ScenarioAtLeast80 ==
    (pc = "returned" /\ IsScenario(arg)) => ret.llm_friendly_score >= 80

\* C10: every page of the scenario scores at least 53, whatever its other
\* features are.
C10_ScenarioAtLeast53 ==
    (pc = "returned" /\ IsScenario(arg)) => ret.llm_friendly_score >= 53

\* the page of the scenario with none of the other features
C10_BareScenarioAudited ==
    /\ pc = "returned"
    /\ IsScenario(arg)
    /\ ret.component_scores = [schema_score |-> 35, meta_score |-> 100,
                               content_score |-> 35, technical_score |-> 60]
    /\ ret.llm_friendly_score = 54

SameDocument(r1, r2) ==
    /\ r1.url = r2.url
    /\ r1.exc = r2.exc
    /\ r1.response = r2.response
    /\ r1.page = r2.page
ExceptTimestamp(result) == [f \in (DOMAIN result) \ {"timestamp"} |-> result[f]]

RECURSIVE strip(_)
strip(text) ==
    IF text = <<>> THEN <<>>
    ELSE IF Head(text) = " " THEN strip(Tail(text))
    ELSE IF text[Len(text)] = " " THEN strip(SubSeq(text, 1, Len(text) - 1))
    ELSE text

\* re.sub(r'^Q[:.)]|\s*', '', text): the prefix and every run of white space go
sub_question_prefix(text) ==
    SelectSeq(IF Len(text) >= 2 /\ text[1] = "Q" /\ text[2] = ":"
              THEN SubSeq(text, 3, Len(text)) ELSE text,
              LAMBDA token : token # " ")

\* process_faq_item: the question an item adds, if any
process_faq_item(item) ==
    IF IsDict(item) /\ Has(item, "@type") /\ Get(item, "@type") = JText("Question")
    THEN LET question == IF Has(item, "name") THEN Get(item, "name") ELSE JText("")
             answer_obj == IF Has(item, "acceptedAnswer") THEN Get(item, "acceptedAnswer")
                           ELSE JDict(<<>>)
             answer == IF IsDict(answer_obj) /\ Has(answer_obj, "text")
                       THEN Get(answer_obj, "text") ELSE JText("")
         IN  IF Truthy(question) /\ Truthy(answer)
             THEN <<[question |-> question, answer |-> answer]>>
             ELSE <<>>
    ELSE <<>>

RECURSIVE process_faq_items(_)
process_faq_items(items) ==
    IF items = <<>> THEN <<>>
    ELSE process_faq_item(Head(items)) \o process_faq_items(Tail(items))

\* the questions of a mainEntity, a list or a single item
main_entity_questions(main_entity) ==
    IF IsList(main_entity) THEN process_faq_items(main_entity.el)
    ELSE process_faq_item(main_entity)

RECURSIVE graph_faq_questions(_)
graph_faq_questions(items) ==
    IF items = <<>> THEN <<>>
    ELSE (IF /\ IsDict(Head(items))
             /\ Has(Head(items), "@type")
             /\ Get(Head(items), "@type") = JText("FAQPage")
             /\ Has(Head(items), "mainEntity")
          THEN main_entity_questions(Get(Head(items), "mainEntity"))
          ELSE <<>>)
         \o graph_faq_questions(Tail(items))

extract_faq_questions(schema_data) ==
    IF ~IsDict(schema_data) THEN <<>>
    ELSE (IF /\ Has(schema_data, "@type")
             /\ Get(schema_data, "@type") = JText("FAQPage")
             /\ Has(schema_data, "mainEntity")
          THEN main_entity_questions(Get(schema_data, "mainEntity"))
          ELSE <<>>)
         \o (IF HasGraph(schema_data)
             THEN graph_faq_questions(Get(schema_data, "@graph").el)
             ELSE <<>>)

\* method 1: a section for every script that is FAQ schema
RECURSIVE schema_faq_sections(_)
schema_faq_sections(schema_scripts) ==
    IF schema_scripts = <<>> THEN <<>>
    ELSE (IF Head(schema_scripts).text = "json" /\ is_faq_schema(Head(schema_scripts).data)
          THEN <<[type |-> "schema",
                  questions |-> extract_faq_questions(Head(schema_scripts).data),
                  quality |-> "high"]>>
          ELSE <<>>)
         \o schema_faq_sections(Tail(schema_scripts))

\* method 2: a section for every <dl> of more than one <dt> and as many <dd>
RECURSIVE dl_faq_sections(_)
dl_faq_sections(dl_elements) ==
    IF dl_elements = <<>> THEN <<>>
    ELSE (IF /\ Len(Head(dl_elements).dt) > 1
             /\ Len(Head(dl_elements).dt) = Len(Head(dl_elements).dd)
          THEN <<[type |-> "dl_list",
                  questions |-> [i \in DOMAIN Head(dl_elements).dt |->
                                    [question |-> strip(Head(dl_elements).dt[i]),
                                     answer |-> strip(Head(dl_elements).dd[i])]],
                  quality |-> "medium"]>>
          ELSE <<>>)
         \o dl_faq_sections(Tail(dl_elements))

\* method 3: a section for every question heading with an answer of more than
\* 15 characters
RECURSIVE heading_faq_sections(_)
heading_faq_sections(q_headings) ==
    IF q_headings = <<>> THEN <<>>
    ELSE (IF /\ Head(q_headings).answer # <<"none">>
             /\ Len(strip(Head(q_headings).answer)) > 15
          THEN <<[type |-> "heading_pattern",
                  questions |-> <<[question |->
                                      strip(sub_question_prefix(strip(Head(q_headings).text))),
                                   answer |-> strip(Head(q_headings).answer)]>>,
                  quality |-> "low"]>>
          ELSE <<>>)
         \o heading_faq_sections(Tail(q_headings))

faq_sections(soup_faq) ==
    schema_faq_sections(soup_faq.scripts) \o dl_faq_sections(soup_faq.dl)
    \o heading_faq_sections(soup_faq.q_headings)

\* a text of n characters
Chars(n) == [i \in 1..n |-> "x"]

FaqScripts ==
    {<<>>, <<Json(FAQPageOf(1))>>, <<Json(FAQPageInGraph)>>,
     <<Json(FAQPageOf(3)), Json(FAQPageNamed)>>,
     <<Json(OrgNameUrl), InvalidScript, EmptyScript>>,
     \* an FAQPage without mainEntity
     <<Json(WithContext(Typed("FAQPage", Texts(<<"name">>))))>>,
     \* an FAQPage whose only question has no acceptedAnswer
     <<Json(Typed("FAQPage", << <<"mainEntity",
                                 JList(<<Typed("Question", Texts(<<"name">>))>>)>> >>))>>,
     \* a WebPage whose mainEntity is an FAQPage
     <<Json(PageWith("mainEntity", Typed("FAQPage",
                                         << <<"mainEntity", JList(<<Question>>)>> >>)))>>}

DlTexts == {<<"x">>, <<" ", "x">>, <<>>}

DlElements ==
    [dt : SeqsUpTo(DlTexts, 2) \ {<<>>}, dd : SeqsUpTo(DlTexts, 2) \ {<<>>}]

QuestionHeadings ==
    [text : {<<"Q", ":">>, <<"Q", ":", " ">>, <<"Q", ":", " ", "x", " ", "x">>, <<"FAQ">>},
     answer : {<<"none">>, <<>>, Chars(15), <<" ">> \o Chars(15) \o <<" ">>, Chars(16)}]

\* pages with sections of one detection method, and of all three
FaqInputs ==
    {[scripts |-> sc, dl |-> <<>>, q_headings |-> <<>>] : sc \in FaqScripts}
    \cup {[scripts |-> <<>>, dl |-> <<d>>, q_headings |-> <<>>] : d \in DlElements}
    \cup {[scripts |-> <<>>, dl |-> <<>>, q_headings |-> <<q>>] : q \in QuestionHeadings}
    \cup {[scripts |-> <<Json(FAQPageOf(1))>>,
           dl |-> <<[dt |-> <<(<<"x">>), (<<" ", "x">>)>>, dd |-> <<(<<"x">>), (<<"x">>)>>]>>,
           q_headings |-> <<q, q>>] : q \in QuestionHeadings}

(***************************************************************************)
(* The analyzers applied to their inputs.  fn names the analyzer, arg its  *)
(* input, ret its result once pc = "done".                                 *)
(***************************************************************************)
MaxHeadings == 3

AnalyzeMetaTags == Return("meta_tags", analyze_meta_tags(arg))

AnalyzeSchemaOrg == Return("schema_org", analyze_schema_org(arg))

\* pages by the basic meta tags they carry: a 55-character title, a
\* 155-character description (two of the keywords occur in it when there are
\* keywords), a canonical link, a robots and a viewport tag, each present or
\* absent
BasicTagSubsets ==
    {[title_length |-> t, title_sep |-> TRUE, description_length |-> d[1],
      description_words |-> d[2], keywords |-> kw,
      keyword_matches |-> IF kw /\ d[1] > 0 THEN 2 ELSE 0, canonical |-> canonical,
      robots |-> robots, viewport |-> viewport, og_tags |-> OgNone,
      twitter_tags |-> {}, article_tags |-> 0] :
        t \in {0, 55}, d \in {<<0, 0>>, <<155, 25>>}, kw \in BOOLEAN,
        canonical \in BOOLEAN, robots \in {"none", "index"},
        viewport \in {"none", "device"}}

\* the page with one more basic meta tag: a basic tag that is absent is added,
\* with some length or content, and everything else is left as it is
WithOneMoreBasicTag(meta) ==
    {[meta EXCEPT !.title_length = t] : t \in IF meta.title_length = 0
                                             THEN {25, 55, 90} ELSE {}}
    \cup {[meta EXCEPT !.description_length = d[1], !.description_words = d[2],
                       !.keyword_matches = m] :
            d \in IF meta.description_length = 0 THEN {<<90, 12>>, <<155, 25>>} ELSE {},
            m \in IF meta.keywords THEN {0, 2} ELSE {0}}
    \cup {[meta EXCEPT !.canonical = TRUE] : x \in IF meta.canonical THEN {} ELSE {1}}
    \cup {[meta EXCEPT !.robots = r] : r \in IF meta.robots = "none"
                                             THEN {"index", "noindex"} ELSE {}}
    \cup {[meta EXCEPT !.viewport = v] : v \in IF meta.viewport = "none"
                                               THEN {"plain", "device"} ELSE {}}

\* the page gains a basic meta tag it did not have and is scored again
AddBasicMetaTag ==
    /\ pc = "done"
    /\ fn = "meta"
    /\ arg' \in WithOneMoreBasicTag(arg)
    /\ ret' = calculate_meta_score(analyze_meta_tags(arg'))
    /\ UNCHANGED <<pc, fn, services>>

\* the arguments of _calculate_schema_quality_score: a set of types, a number
\* of property paths, the completeness map as a list of <<type, present,
\* required>> and a number of error strings
\* numbers of distinct property paths on both sides of every tier
PropertyCounts == {0, 3, 9, 10, 19, 20, 29, 30, 49, 50}

QualityInputs ==
    [schema_types : {{}, {"WebPage"}, {"Organization"}, {"Organization", "WebPage"},
                     {"Organization", "LocalBusiness", "Product", "FAQPage", "Article",
                      "BreadcrumbList"},
                     DOMAIN high_value_types},
     property_count : PropertyCounts,
     completeness : {<<>>, << <<"Organization", 4, 5>>, <<"WebSite", 2, 3>> >>,
                     << <<"Organization", 1, 5>>, <<"Question", 1, 2>> >>,
                     << <<"Person", 1, 4>>, <<"Organization", 2, 5>> >>,
                     << <<"WebSite", 1, 3>> >>, << <<"Product", 5, 6>> >>,
                     << <<"Organization", 5, 5>>, <<"FAQPage", 1, 1>>,
                        <<"Question", 2, 2>> >>},
     errors : 0..6]

schema_quality_of(input) ==
    calculate_schema_quality_score(
        input.schema_types,
        [i \in 1..input.property_count |-> 1],
        [i \in DOMAIN input.completeness |->
            <<input.completeness[i][1],
              FDiv(FromInt(input.completeness[i][2]), FromInt(input.completeness[i][3]))>>],
        [i \in 1..input.errors |-> "processing"])

CalcSchemaQuality == Return("schema_quality", schema_quality_of(arg))

\* the same schema types, completeness and errors with more distinct properties
AddProperties ==
    /\ pc = "done"
    /\ fn = "schema_quality"
    /\ \E m \in PropertyCounts :
          /\ m > arg.property_count
          /\ arg' = [arg EXCEPT !.property_count = m]
    /\ ret' = schema_quality_of(arg')
    /\ UNCHANGED <<pc, fn, services>>

DetectFaqSections == Return("faq_sections", faq_sections(arg))

\* a block whose objects nest: d WebPage objects, each the "about" of the one
\* around it, and an Organization inside the innermost
MaxNesting == 5

RECURSIVE NestedBlock(_)
NestedBlock(d) ==
    IF d = 0 THEN Typed("Organization", Texts(<<"name", "url">>))
    ELSE Typed("WebPage", Texts(<<"name">>) \o << <<"about", NestedBlock(d - 1)>> >>)

\* arg: the depth at which the Organization is nested
AnalyzeNestedBlock == Return("nested_block", analyze_schema_org(<<Json(NestedBlock(arg))>>))

\* arg: the levels of the page's headings in document order
AnalyzeHeadingHierarchy == Return("heading_hierarchy", analyze_heading_hierarchy(arg))

\* arg: the viewport tag, whether a <style> holds "@media" and whether a
\* stylesheet <link> has a media attribute with "screen"
CheckMobileFriendly ==
    Return("mobile_friendly",
           check_mobile_friendly([viewport |-> arg.viewport,
                                  responsive |-> arg.style_media \/ arg.link_screen,
                                  internal_links |-> 0, external_links |-> 0]))

InitAnalyses ==
    /\ services = <<>>
    /\ pc = "ready"
    /\ ret = <<>>
    /\ \/ fn = "meta_tags" /\ arg \in MetaInputs
       \/ fn = "schema_org" /\ arg \in ScriptLists
       \/ fn = "meta" /\ arg \in BasicTagSubsets
       \/ fn = "schema_quality" /\ arg \in QualityInputs
       \/ fn = "heading_hierarchy" /\ arg \in SeqsUpTo(1..6, MaxHeadings)
       \/ fn = "faq_sections" /\ arg \in FaqInputs
       \/ fn = "nested_block" /\ arg \in 0..MaxNesting
       \/ fn = "mobile_friendly"
          /\ arg \in [viewport : {"none", "plain", "device"}, style_media : BOOLEAN,
                      link_screen : BOOLEAN]

NextAnalyses ==
    \/ AnalyzeMetaTags
    \/ AnalyzeSchemaOrg
    \/ CalcMetaScore
    \/ AddBasicMetaTag
    \/ CalcSchemaQuality
    \/ AddProperties
    \/ DetectFaqSections
    \/ AnalyzeNestedBlock
    \/ AnalyzeHeadingHierarchy
    \/ CheckMobileFriendly

SpecAnalyses == InitAnalyses /\ [][NextAnalyses]_vars

(***************************************************************************)
(* Properties of the analyzers                                             *)
(***************************************************************************)
\* C11 as stated: the basic, social and overall completeness of every meta-tag
\* report lie in 0..1 (a float of the model is never negative).
C11_CompletenessWithinUnit ==
    (pc = "done" /\ fn = "meta_tags") =>
        /\ FLe(ret.completeness.basic, FromInt(1))
        /\ FLe(ret.completeness.social, FromInt(1))
        /\ FLe(ret.completeness.overall, FromInt(1))

\* the scripts without the one at position i
WithoutScript(schema_scripts, i) ==
    SubSeq(schema_scripts, 1, i - 1) \o SubSeq(schema_scripts, i + 1, Len(schema_scripts))

\* the script, analyzed alone, produces an entry in the errors list
ProducesError(script) == analyze_schema_org(<<script>>).errors # <<>>

\* the report agrees with the report of the page without script i, except for
\* one more error string
SkippedEntirely(report, rest) ==
    /\ Len(report.errors) = Len(rest.errors) + 1
    /\ report.found = rest.found
    /\ report.count = rest.count
    /\ report.types = rest.types
    /\ report.properties = rest.properties
    /\ report.completeness = rest.completeness

\* C13 as stated: every script block that produces an error (a JSON decode
\* failure or a processing error) adds exactly one error string and leaves
\* found, count, types, properties and completeness as they are without it,
\* wherever it stands among the other blocks.
C13_FailingBlocksSkipped ==
    (pc = "done" /\ fn = "schema_org") =>
        \A i \in DOMAIN arg :
            ProducesError(arg[i]) =>
                SkippedEntirely(ret, analyze_schema_org(WithoutScript(arg, i)))

\* C16 as stated: mobile_friendly is true exactly when the viewport tag has
\* width=device-width and one of the two responsive indicators is present.
C16_MobileNeedsResponsiveIndicator ==
    (pc = "done" /\ fn = "mobile_friendly") =>
        (ret <=> (arg.viewport = "device" /\ (arg.style_media \/ arg.link_screen)))

\* C16: mobile_friendly is true exactly when the viewport tag has
\* width=device-width, with or without a responsive indicator.
C16_MobileIsDeviceWidthViewport ==
    (pc = "done" /\ fn = "mobile_friendly") => (ret <=> arg.viewport = "device")

\* a page with the device-width viewport and no responsive indicator was
\* checked and found mobile-friendly
C16_ViewportAloneChecked ==
    /\ pc = "done"
    /\ fn = "mobile_friendly"
    /\ arg.viewport = "device"
    /\ ~arg.style_media
    /\ ~arg.link_screen
    /\ ret = TRUE

\* the adjacent pairs of levels, in the order given, whose level rises by more
\* than one
SkipLevelViolations(levels) ==
    Cardinality({i \in 2..Len(levels) : levels[i] - levels[i - 1] > 1})

\* C17 as stated: with the headings taken in document order, the score is 0
\* without headings, 0.3 when the first heading is not an H1 (or there is none),
\* and otherwise 1 - v / n, v the skip-level violations among the n headings.
C17_HierarchyInDocumentOrder ==
    (pc = "done" /\ fn = "heading_hierarchy") =>
        ret = IF arg = <<>> THEN <<>>
              ELSE IF arg[1] # 1 THEN F_03
              ELSE FSub(FromInt(1),
                        FDiv(FromInt(SkipLevelViolations(arg)), FromInt(Len(arg))))

\* the weighted sum over the five basic tags: weight times credit for a tag
\* that is present, nothing for one that is absent
WeightedBasicSum(meta_analysis) ==
    FSum(<<IF meta_analysis.title
           THEN basic_title_credit(meta_analysis.title_length, F_04) ELSE <<>>,
           IF meta_analysis.description
           THEN basic_description_credit(meta_analysis.description_length, F_04)
           ELSE <<>>,
           IF meta_analysis.canonical THEN F_01 ELSE <<>>,
           IF meta_analysis.robots = "none" THEN <<>>
           ELSE IF meta_analysis.robots = "noindex" THEN FMul(F_005, F_02)
           ELSE F_005,
           IF meta_analysis.viewport # "none" THEN F_005 ELSE <<>> >>)

OnlyCanonical(meta_analysis) ==
    /\ ~meta_analysis.title
    /\ ~meta_analysis.description
    /\ meta_analysis.canonical
    /\ meta_analysis.robots = "none"
    /\ meta_analysis.viewport = "none"

\* C18 as stated: the basic completeness is the weighted sum over the five
\* basic tags, an absent tag adding nothing; so it is 0.1 for a page whose only
\* basic tag is the canonical link.
C18_BasicIsWeightedSum ==
    (pc = "done" /\ fn = "meta_tags") =>
        /\ ret.completeness.basic = WeightedBasicSum(ret)
        /\ OnlyCanonical(ret) => ret.completeness.basic = F_01

\* C19 as stated: a page that gains a basic meta tag it did not have (title,
\* description, canonical, robots or viewport), of any length or content and
\* with everything else unchanged, has a meta score no lower than before.
C19_AddedTagNeverLowersMetaScore ==
    [][(pc = "done" /\ pc' = "done" /\ fn = "meta" /\ arg' \in WithOneMoreBasicTag(arg))
          => ret' >= ret]_vars

\* T: the weights of the high-value types present, at most 40
TypePoints(schema_types) ==
    Min(40, SetSum(schema_types \cap DOMAIN high_value_types, high_value_types))
\* P: the property-count tier bonus
PropertyTierBonus(property_count) ==
    CASE property_count >= 50 -> 20
      [] property_count \in 30..49 -> 15
      [] property_count \in 20..29 -> 10
      [] property_count \in 10..19 -> 5
      [] OTHER -> property_count
\* E: two points an error, at most 10
ErrorPenalty(errors) == Min(10, 2 * errors)
\* the mean of the ratios present / required as a fraction <<numerator,
\* denominator>> (0 / 1 without ratios)
RECURSIVE RatioSum(_, _)
RatioSum(ratios, i) ==
    IF i > Len(ratios) THEN <<0, 1>>
    ELSE <<ratios[i][2] * RatioSum(ratios, i + 1)[2]
              + RatioSum(ratios, i + 1)[1] * ratios[i][3],
           ratios[i][3] * RatioSum(ratios, i + 1)[2]>>
MeanRatio(ratios) ==
    IF ratios = <<>> THEN <<0, 1>>
    ELSE <<RatioSum(ratios, 1)[1], RatioSum(ratios, 1)[2] * Len(ratios)>>

\* C20 as stated: the quality score is clamp(0, 100, T + P + C - E) with C
\* thirty times the mean completeness; in units of the mean's denominator.
C20_QualityIsExactSum ==
    (pc = "done" /\ fn = "schema_quality") =>
        ret * MeanRatio(arg.completeness)[2] =
            Max(0, Min(100 * MeanRatio(arg.completeness)[2],
                       (TypePoints(arg.schema_types)
                        + PropertyTierBonus(arg.property_count)
                        - ErrorPenalty(arg.errors)) * MeanRatio(arg.completeness)[2]
                       + 30 * MeanRatio(arg.completeness)[1]))

\* C20: the quality score is clamp(0, 100, T + P + C - E) with C thirty times
\* the mean completeness without its fractional part.
C20_QualityTruncatesCompleteness ==
    (pc = "done" /\ fn = "schema_quality") =>
        ret = Max(0, Min(100, TypePoints(arg.schema_types)
                              + PropertyTierBonus(arg.property_count)
                              + (30 * MeanRatio(arg.completeness)[1])
                                    \div MeanRatio(arg.completeness)[2]
                              - ErrorPenalty(arg.errors)))

\* a score whose completeness points lost a fraction: the mean of 1/4 and 2/5
\* gives 9.75, counted as 9
C20_FractionDropped ==
    /\ pc = "done"
    /\ fn = "schema_quality"
    /\ arg.completeness = << <<"Person", 1, 4>>, <<"Organization", 2, 5>> >>
    /\ arg.schema_types = {"Organization"}
    /\ arg.property_count = 3
    /\ arg.errors = 0
    /\ ret = 8 + 3 + 9

(***************************************************************************)
(* Properties of the recommendation records                                *)
(***************************************************************************)
\* C12 as stated: every recommendation of every result of audit_website, on
\* the success path and on the failure paths, has a priority among high,
\* medium, low, a category among schema, meta, content, technical, an issue
\* and the "implementation" key.
C12_RecommendationsWellFormed ==
    pc = "returned" =>
        \A i \in DOMAIN ret.recommendations :
            /\ ret.recommendations[i].priority \in {"high", "medium", "low"}
            /\ ret.recommendations[i].category \in {"schema", "meta", "content", "technical"}
            /\ "issue" \in DOMAIN ret.recommendations[i]
            /\ ret.recommendations[i].implementation

(***************************************************************************)
(* The endpoint POST /api/audit/visibility (main.py, audit_visibility)     *)
(* with the services it calls.  services is a record of                    *)
(*   cache          the rows of llm_response_cache, by cache key           *)
(*   scans          the rows of the scans table, in insertion order        *)
(*   audit_results  the rows of the audit_results table                    *)
(*   profile        the user's scans_used and scans_remaining              *)
(*   calls          how often each service operation has been called       *)
(*   clock          datetime.now(), in hours                               *)
(* The database and the cache answer every call: none of them raises.      *)
(***************************************************************************)
MaxScans == 2
MaxClock == 6
CACHE_TTL_HOURS == 6

HTTP_400_BAD_REQUEST == 400
HTTP_403_FORBIDDEN == 403

\* dict.get(key, default)
get_or(d, key, default) == IF key \in DOMAIN d THEN d[key] ELSE default

\* an exception message is a sequence of fragments; a searched word is one
\* fragment, so that "HTTPSConnectionPool" is <<"HTTP", "S", "Connection", "Pool">>
lower(fragment) ==
    CASE fragment = "Connection" -> "connection"
      [] fragment = "CONNECTION" -> "connection"
      [] fragment = "Timeout" -> "timeout"
      [] fragment = "Certificate" -> "certificate"
      [] fragment = "SSL" -> "ssl"
      [] fragment = "HTTP" -> "http"
      [] OTHER -> fragment

contains(message, word) == \E i \in DOMAIN message : message[i] = word
lower_contains(message, word) == \E i \in DOMAIN message : lower(message[i]) = word

\* the SSL branch asking for both words
classify_error_ssl_and_certificate(error_message) ==
    IF contains(error_message, "Connection") \/ lower_contains(error_message, "connection")
    THEN "connection_error"
    ELSE IF contains(error_message, "Timeout") \/ lower_contains(error_message, "timeout")
    THEN "timeout_error"
    ELSE IF /\ contains(error_message, "HTTP")
            /\ \/ contains(error_message, "404")
               \/ contains(error_message, "403")
               \/ contains(error_message, "500")
    THEN "http_error"
    ELSE IF contains(error_message, "SSL") /\ lower_contains(error_message, "certificate")
    THEN "ssl_error"
    ELSE "unknown_error"

\* the if/elif chain over str(audit_error)
classify_error(error_message) ==
    IF contains(error_message, "Connection") \/ lower_contains(error_message, "connection")
    THEN "connection_error"
    ELSE IF contains(error_message, "Timeout") \/ lower_contains(error_message, "timeout")
    THEN "timeout_error"
    ELSE IF /\ contains(error_message, "HTTP")
            /\ \/ contains(error_message, "404")
               \/ contains(error_message, "403")
               \/ contains(error_message, "500")
    THEN "http_error"
    ELSE IF contains(error_message, "SSL") \/ lower_contains(error_message, "certificate")
    THEN "ssl_error"
    ELSE "unknown_error"

\* domain.strip() and the https:// prefix; a domain is a scheme and a host
normalize_domain(domain) ==
    IF domain.scheme \in {"http", "https"} THEN domain
    ELSE [domain EXCEPT !.scheme = "https"]

\* urlparse(domain).netloc
netloc(domain) == domain.host

\* CacheService.get: the row of the key, if it has not expired
cache_get(sv, cache_key) ==
    IF cache_key \in DOMAIN sv.cache /\ sv.cache[cache_key].expires_at > sv.clock
    THEN sv.cache[cache_key].response_data
    ELSE <<>>

\* CacheService.set: upsert on the cache key
cache_set(sv, cache_key, data, ttl_hours) ==
    [sv EXCEPT !.cache = [k \in DOMAIN sv.cache \cup {cache_key} |->
                            IF k = cache_key
                            THEN [response_data |-> data, expires_at |-> sv.clock + ttl_hours]
                            ELSE sv.cache[k]],
               !.calls.cache_set = @ + 1]

\* DatabaseService.get_profile: the row of the user
get_profile(sv) == sv.profile

\* the update of update_scan_usage, computed from the profile it has read
write_scan_usage(sv, profile) ==
    [sv EXCEPT !.profile = [scans_used |-> profile.scans_used + 1,
                            scans_remaining |-> IF profile.scans_remaining - 1 > 0
                                                THEN profile.scans_remaining - 1
                                                ELSE 0],
               !.calls.update_scan_usage = @ + 1]

\* update_scan_usage run without another request in between
update_scan_usage(sv) == write_scan_usage(sv, get_profile(sv))

\* the id of the row create_scan inserts
new_scan_id(sv) == Len(sv.scans) + 1

create_scan(sv, domain) ==
    [sv EXCEPT !.scans = Append(@, [id |-> new_scan_id(sv), scan_type |-> "audit",
                                    domain |-> domain, status |-> "pending",
                                    progress |-> 0]),
               !.calls.create_scan = @ + 1]

update_scan(sv, scan_id, scan_status) ==
    [sv EXCEPT !.scans[scan_id].status = scan_status,
               !.scans[scan_id].progress = 100,
               !.calls.update_scan = @ + 1]

create_audit_result(sv, scan_id, audit_results) ==
    [sv EXCEPT !.audit_results =
                  Append(@, [scan_id |-> scan_id,
                             overall_score |-> get_or(audit_results, "llm_friendly_score", 0),
                             raw_audit_data |-> audit_results]),
               !.calls.create_audit_result = @ + 1]

\* web_scraper.audit_website(domain) has been awaited
scraper_called(sv) == [sv EXCEPT !.calls.audit_website = @ + 1]

Ok(body, sv) == [status_code |-> 200, body |-> body, services |-> sv]
HTTPException(status_code, sv) == [status_code |-> status_code, body |-> <<>>, services |-> sv]

\* a cache hit that leaves the scan usage alone
cached_response_free_of_charge(cached_result, current_profile, sv) ==
    Ok([scans_remaining |-> current_profile.scans_remaining - 1,
        cached |-> TRUE,
        cache_timestamp |-> get_or(cached_result, "timestamp", "None")] @@ cached_result,
       sv)

\* the branch of a cache hit
cached_response(cached_result, current_profile, sv) ==
    Ok([scans_remaining |-> current_profile.scans_remaining - 1,
        cached |-> TRUE,
        cache_timestamp |-> get_or(cached_result, "timestamp", "None")] @@ cached_result,
       update_scan_usage(sv))

\* the except branch around the scraper call
error_response(scan_id, domain, error_message, current_profile, sv) ==
    Ok([scan_id |-> scan_id,
        domain |-> domain,
        status |-> "failed",
        error |-> <<"user_message", classify_error(error_message), domain>>,
        error_type |-> classify_error(error_message),
        error_details |-> error_message,
        overall_score |-> 0,
        component_scores |-> [schema_score |-> 0, meta_score |-> 0,
                              content_score |-> 0, technical_score |-> 0],
        recommendations |-> <<[priority |-> "high", category |-> "technical",
                               issue |-> classify_error(error_message),
                               recommendation |-> <<"user_message",
                                                    classify_error(error_message), domain>>,
                               implementation |-> TRUE]>>,
        scans_remaining |-> current_profile.scans_remaining - 1,
        timestamp |-> sv.clock],
       update_scan(sv, scan_id, "failed"))

\* the response built from what the scraper returned
audit_body(scan_id, domain, audit_results, current_profile, sv) ==
    (IF "error" \in DOMAIN audit_results
     THEN [error |-> audit_results.error,
           error_type |-> get_or(audit_results, "error_type", "unknown_error")]
     ELSE <<>>)
    @@ [scan_id |-> scan_id,
        domain |-> domain,
        overall_score |-> get_or(audit_results, "llm_friendly_score", 0),
        component_scores |-> get_or(audit_results, "component_scores", <<>>),
        recommendations |-> get_or(audit_results, "recommendations", <<>>),
        audit_data |-> [schema_org |-> get_or(audit_results, "schema_org", <<>>),
                        meta_tags |-> get_or(audit_results, "meta_tags", <<>>),
                        content_structure |-> get_or(audit_results, "content_structure", <<>>),
                        technical_factors |-> get_or(audit_results, "technical_factors", <<>>)],
        status |-> IF "error" \notin DOMAIN audit_results THEN "completed" ELSE "failed",
        scans_remaining |-> current_profile.scans_remaining - 1,
        timestamp |-> get_or(audit_results, "timestamp", sv.clock),
        cached |-> FALSE]

\* caching the response, closing the scan and storing the audit result
store_audit(response, cache_key, scan_id, audit_results, sv) ==
    Ok(response,
       create_audit_result(
           update_scan(cache_set(sv, cache_key, response, CACHE_TTL_HOURS), scan_id,
                       IF "error" \notin DOMAIN audit_results THEN "completed" ELSE "failed"),
           scan_id, audit_results))

\* after create_scan and update_scan_usage: the scraper call and what follows
run_audit(scan_id, domain, scrape, current_profile, sv) ==
    IF scrape.raises
    THEN error_response(scan_id, domain, scrape.message, current_profile, sv)
    ELSE store_audit(audit_body(scan_id, domain, scrape.audit_results, current_profile, sv),
                     domain, scan_id, scrape.audit_results, sv)

\* the handler with a valid domain; the cache key is "audit:" and the domain
audit_domain(domain, scrape, current_profile, sv) ==
    IF cache_get(sv, domain) # <<>>
    THEN cached_response(cache_get(sv, domain), current_profile, sv)
    ELSE run_audit(new_scan_id(sv), domain, scrape, current_profile,
                   scraper_called(update_scan_usage(create_scan(sv, domain))))

audit_visibility(request, current_profile, sv) ==
    IF netloc(normalize_domain(request.domain)) = ""
    THEN HTTPException(HTTP_400_BAD_REQUEST, sv)
    ELSE audit_domain(normalize_domain(request.domain), request.scrape, current_profile, sv)

\* the dependency of the endpoint, then the endpoint
verify_scan_quota(request, sv) ==
    IF sv.profile.scans_remaining <= 0
    THEN HTTPException(HTTP_403_FORBIDDEN, sv)
    ELSE audit_visibility(request, sv.profile, sv)

(***************************************************************************)
(* Requests to the endpoint, one after another                             *)
(***************************************************************************)
\* what str(audit_error) can read
ErrorMessages ==
    {<<"Connection", " refused">>,
     <<"HTTP", "S", "Connection", "Pool", ": Max retries exceeded">>,
     <<"connection", " reset by peer">>,
     <<"Read ", "timeout">>,
     <<"Timeout", " waiting for the page">>,
     <<"HTTP", " ", "404", " Not Found">>,
     <<"HTTP", " ", "502", " Bad Gateway">>,
     <<"404", " Not Found">>,
     <<"SSL", " handshake failed">>,
     <<"Certificate", " has expired">>,
     <<"HTTP", " ", "500", ": upstream ", "connection", " ", "timeout">>,
     <<"list index out of range">>,
     <<>>}

\* the fetches the scraper can meet: an empty page, a refused connection, a 404
ScrapedRequests ==
    {Request(Url("https"), "none", Response(200, 0, 100), EmptyPage, Probes(TRUE, TRUE), 0),
     Request(Url("https"), "ConnectionError", Response(0, 0, 0), EmptyPage,
             Probes(FALSE, FALSE), 0),
     Request(Url("https"), "none", Response(404, 1, 100), EmptyPage, Probes(FALSE, FALSE), 0)}

\* audit_website(domain) returns its report, or raises
ScraperOutcomes(domain, now) ==
    {[raises |-> FALSE,
      audit_results |-> audit_website([r EXCEPT !.url = domain, !.now = now])] :
        r \in ScrapedRequests}
    \cup {[raises |-> TRUE, message |-> m] : m \in ErrorMessages}

EndpointDomains == {Url(""), Url("http"), Url("https"), [scheme |-> "", host |-> ""]}

InitEndpoint ==
    /\ pc = "idle"
    /\ fn = "audit_visibility"
    /\ arg = <<>>
    /\ ret = <<>>
    /\ services = [cache |-> <<>>, scans |-> <<>>, audit_results |-> <<>>,
                   profile |-> [scans_used |-> 0, scans_remaining |-> MaxScans],
                   calls |-> [audit_website |-> 0, create_scan |-> 0, update_scan |-> 0,
                              create_audit_result |-> 0, update_scan_usage |-> 0,
                              cache_set |-> 0],
                   clock |-> 0]

Respond(out) ==
    /\ ret' = [status_code |-> out.status_code, body |-> out.body]
    /\ services' = out.services

AuditVisibility ==
    /\ pc = "idle"
    /\ \E domain \in EndpointDomains :
          \E scrape \in ScraperOutcomes(normalize_domain(domain), services.clock) :
             /\ arg' = [domain |-> domain, scrape |-> scrape]
             /\ Respond(verify_scan_quota([domain |-> domain, scrape |-> scrape], services))
    /\ pc' = "responded"
    /\ UNCHANGED fn

\* the client takes the response
SendResponse ==
    /\ pc = "responded"
    /\ pc' = "idle"
    /\ arg' = <<>>
    /\ ret' = <<>>
    /\ UNCHANGED <<fn, services>>

\* time passes between two requests, in steps of half the lifetime of a cache row
HoursPerTick == CACHE_TTL_HOURS \div 2

Tick ==
    /\ pc = "idle"
    /\ services.clock + HoursPerTick <= MaxClock
    /\ services' = [services EXCEPT !.clock = @ + HoursPerTick]
    /\ UNCHANGED <<pc, fn, arg, ret>>

NextEndpoint ==
    \/ AuditVisibility
    \/ SendResponse
    \/ Tick

SpecEndpoint == InitEndpoint /\ [][NextEndpoint]_vars

(***************************************************************************)
(* Properties of the endpoint                                              *)
(***************************************************************************)
\* the request of a step of the endpoint that reaches the handler with a valid domain
Handled ==
    /\ pc = "idle"
    /\ pc' = "responded"
    /\ services.profile.scans_remaining > 0
    /\ arg'.domain.host # ""

\* the cache holds an unexpired row for the key
HoldsUnexpired(sv, cache_key) ==
    /\ cache_key \in DOMAIN sv.cache
    /\ sv.cache[cache_key].expires_at > sv.clock

\* the response is the cached entry, but for the three fields of a cache hit
IsEntry(body, entry) ==
    /\ DOMAIN body = DOMAIN entry \cup {"cache_timestamp"}
    /\ \A k \in DOMAIN entry \ {"scans_remaining", "cached"} : body[k] = entry[k]

\* C14: a request whose normalized domain has an unexpired cache entry returns
\* that entry with cached = true and cache_timestamp set, without invoking the
\* scraper, creating or updating a scan record or storing an audit result, and
\* the user's scan usage is incremented exactly once.
C14_CacheHitServedFromCache ==
    [][(Handled /\ HoldsUnexpired(services, normalize_domain(arg'.domain)))
        => /\ ret'.status_code = 200
           /\ IsEntry(ret'.body,
                      services.cache[normalize_domain(arg'.domain)].response_data)
           /\ ret'.body.cached = TRUE
           /\ ret'.body.cache_timestamp
                 = services.cache[normalize_domain(arg'.domain)].response_data.timestamp
           /\ ret'.body.cache_timestamp \in 0..MaxClock
           /\ services'.calls.audit_website = services.calls.audit_website
           /\ services'.scans = services.scans
           /\ services'.calls.create_scan = services.calls.create_scan
           /\ services'.calls.update_scan = services.calls.update_scan
           /\ services'.audit_results = services.audit_results
           /\ services'.calls.create_audit_result = services.calls.create_audit_result
           /\ services'.profile.scans_used = services.profile.scans_used + 1
           /\ services'.calls.update_scan_usage = services.calls.update_scan_usage + 1]_vars

\* a second request for an audited domain has been answered from the cache
C14_AnsweredFromCache ==
    /\ pc = "responded"
    /\ ret.status_code = 200
    /\ "cache_timestamp" \in DOMAIN ret.body
    /\ ret.body.cached = TRUE
    /\ services.calls.audit_website = 1
    /\ services.calls.update_scan_usage = 2
    /\ Len(services.scans) = 1
    /\ Len(services.audit_results) = 1

\* the kinds of error an exception message speaks of
MentionedKinds(message) ==
    {kind \in {"connection_error", "timeout_error", "http_error", "ssl_error"} :
        \/ kind = "connection_error" /\ lower_contains(message, "connection")
        \/ kind = "timeout_error" /\ lower_contains(message, "timeout")
        \/ kind = "http_error" /\ contains(message, "HTTP")
                               /\ \E code \in {"403", "404", "500"} : contains(message, code)
        \/ kind = "ssl_error" /\ (contains(message, "SSL")
                                  \/ lower_contains(message, "certificate"))}

C21_QualityMonotoneInProperties ==
    [][(/\ pc = "done"
        /\ pc' = "done"
        /\ fn = "schema_quality"
        /\ arg'.property_count >= arg.property_count
        /\ arg' = [arg EXCEPT !.property_count = arg'.property_count])
        => ret' >= ret]_vars

(***************************************************************************)
(* Further properties of audit_website                                     *)
(***************************************************************************)
\* the items of a rule, which its issue names
ItemsOf(recommendations, issue) == SelectSeq(recommendations, LAMBDA r : r.issue = issue)

\* exactly one item of the rule, of that priority and category, when the
\* condition holds, and none otherwise
FiresOnce(recommendations, issue, priority, category, condition) ==
    IF condition
    THEN /\ Len(ItemsOf(recommendations, issue)) = 1
         /\ ItemsOf(recommendations, issue)[1].priority = priority
         /\ ItemsOf(recommendations, issue)[1].category = category
    ELSE ItemsOf(recommendations, issue) = <<>>

LowCompleteness(result) ==
    SelectSeq(result.schema_org.completeness, LAMBDA item : FLt(item[2], F_07))

\* C22: in every audit, no two recommendations come from the same rule, and
\* the rules of missing Schema.org markup (high/schema), title length below 30
\* or above 70 (medium/meta), missing H1 (high/content) and not mobile-friendly
\* (high/technical) yield exactly one item when their condition holds and none
\* otherwise.
C22_EachRuleFiresOnce ==
    (pc = "returned" /\ Succeeded(ret)) =>
        /\ \A i, j \in DOMAIN ret.recommendations :
              ret.recommendations[i].issue = ret.recommendations[j].issue => i = j
        /\ FiresOnce(ret.recommendations, "No Schema.org markup found", "high", "schema",
                     ~ret.schema_org.found)
        /\ FiresOnce(ret.recommendations, "Suboptimal title length", "medium", "meta",
                     ret.meta_tags.title /\ (ret.meta_tags.title_length < 30
                                             \/ ret.meta_tags.title_length > 70))
        /\ FiresOnce(ret.recommendations, "Missing H1 heading", "high", "content",
                     ret.content_structure.headings[1] = 0)
        /\ FiresOnce(ret.recommendations, "Not mobile-friendly", "high", "technical",
                     ~ret.technical_factors.mobile_friendly)

\* an audit with several incomplete schema types and one item for them
C22_SeveralIncompleteTypes ==
    /\ pc = "returned"
    /\ Succeeded(ret)
    /\ Len(LowCompleteness(ret)) >= 2
    /\ Len(ItemsOf(ret.recommendations, "Incomplete schema properties")) = 1
    /\ Len(ItemsOf(ret.recommendations, "Suboptimal title length")) = 1

\* a text that is not empty: a truthy JSON value of a schema section, a
\* non-empty HTML text of the other sections
HasText(section, text) == IF section.type = "schema" THEN Truthy(text) ELSE text # <<>>

\* C23: every FAQ section returned, of each of the three detection methods,
\* has at least one question, and every question of it has a non-empty
\* question text and a non-empty answer text.
C23_FaqSectionsHaveQuestions ==
    (pc = "done" /\ fn = "faq_sections") =>
        \A i \in DOMAIN ret :
            /\ ret[i].questions # <<>>
            /\ \A j \in DOMAIN ret[i].questions :
                  /\ HasText(ret[i], ret[i].questions[j].question)
                  /\ HasText(ret[i], ret[i].questions[j].answer)

\* the depth of the object that holds the last key of a property path
DepthOf(path) == Len(path) - 1

\* C24: the traversal of a JSON-LD block stops at a fixed depth and completes
\* without a failure: of the blocks nested as deep as MaxNesting, no object as
\* deep as MaxNesting is visited, by the property extraction or by the
\* completeness analysis, and no error is recorded.
C24_TraversalDepthBounded ==
    (pc = "done" /\ fn = "nested_block") =>
        /\ \A path \in DOMAIN ret.properties : DepthOf(path) < MaxNesting
        /\ (\E i \in DOMAIN ret.completeness : ret.completeness[i][1] = "Organization")
              => arg < MaxNesting
        /\ ret.errors = <<>>

\* the occurrences of a property path in an object: every object element of
\* an array counts for itself
RECURSIVE OccurrencesIn(_, _)
RECURSIVE OccurrencesInAll(_, _)
OccurrencesInAll(values, path) ==
    IF values = <<>> THEN 0
    ELSE OccurrencesIn(Head(values), path) + OccurrencesInAll(Tail(values), path)
OccurrencesIn(data, path) ==
    IF ~IsDict(data) \/ path[1] \in AtKeys \/ ~Has(data, path[1]) THEN 0
    ELSE IF Len(path) = 1 THEN 1
    ELSE IF IsDict(Get(data, path[1])) THEN OccurrencesIn(Get(data, path[1]), Tail(path))
    ELSE IF IsList(Get(data, path[1]))
    THEN OccurrencesInAll(Get(data, path[1]).el, Tail(path))
    ELSE 0

\* the occurrences in a block: in the object, and in the items of its @graph
OccurrencesInBlock(script, path) ==
    IF script.text # "json" THEN 0
    ELSE OccurrencesIn(script.data, path)
         + (IF HasGraph(script.data)
            THEN OccurrencesInAll(Get(script.data, "@graph").el, path) ELSE 0)

RECURSIVE OccurrencesInBlocks(_, _)
OccurrencesInBlocks(scripts, path) ==
    IF scripts = <<>> THEN 0
    ELSE OccurrencesInBlock(Head(scripts), path) + OccurrencesInBlocks(Tail(scripts), path)

\* C25: in the structured-data report, properties[path] is the number of
\* occurrences of the property path over all the JSON-LD blocks of the page,
\* each object element of an array counting as one occurrence.
C25_PropertiesCountOccurrences ==
    (pc = "done" /\ fn = "schema_org") =>
        \A path \in DOMAIN ret.properties :
            ret.properties[path] = OccurrencesInBlocks(arg, path)

\* C26: in every audit result, structured_data_valid is false exactly when the
\* structured-data analysis recorded errors, and then the recommendations hold
\* the high/technical item "Invalid structured data".
C26_StructuredDataValidity ==
    (pc = "returned" /\ Succeeded(ret)) =>
        /\ ret.technical_factors.structured_data_valid = (ret.schema_org.errors = <<>>)
        /\ ret.schema_org.errors # <<>>
              => \E i \in DOMAIN ret.recommendations :
                    /\ ret.recommendations[i].issue = "Invalid structured data"
                    /\ ret.recommendations[i].priority = "high"
                    /\ ret.recommendations[i].category = "technical"

(***************************************************************************)
(* Further properties of the scores                                        *)
(***************************************************************************)
\* C27: raising one of the schema, meta, content and technical scores, the
\* other three fixed, never lowers the overall score.
C27_OverallMonotone ==
    [][(/\ pc = "done"
        /\ pc' = "done"
        /\ fn = "overall"
        /\ \E i \in 1..4 : /\ arg'[i] > arg[i]
                           /\ arg' = [arg EXCEPT ![i] = arg'[i]])
        => ret' >= ret]_vars

\* the schema score was raised past the threshold of two bonuses, and the
\* overall score rose by more than the weighted points
C27_RaisedIntoBonus ==
    /\ pc = "done"
    /\ fn = "overall"
    /\ arg = <<80, 80, 80, 80>>
    /\ ret = 88
    /\ calculate_overall_score(79, 80, 80, 80) = 83

(***************************************************************************)
(* The percentage change of the two audit comparisons (main.py).  A signed *)
(* float is [sign, magnitude]: sign -1, 0 or 1, magnitude the binary64     *)
(* value of |x| (rounding to nearest is symmetric in the sign).            *)
(***************************************************************************)
MaxScore == 100

Sign(k) == IF k > 0 THEN 1 ELSE IF k < 0 THEN -1 ELSE 0
Abs(k) == IF k < 0 THEN -k ELSE k
Signed(sign, magnitude) == [sign |-> IF magnitude = <<>> THEN 0 ELSE sign,
                            magnitude |-> magnitude]

\* (change / base) * 100 in floats
percentage_of(change, base) ==
    Signed(Sign(change), FMul(FDiv(FromInt(Abs(change)), FromInt(base)), FromInt(100)))

calculate_percentage_change(before, after) ==
    IF before = 0
    THEN (IF after > 0 THEN Signed(1, FromInt(100)) ELSE Signed(0, <<>>))
    ELSE percentage_of(after - before, before)

\* the change_percentage of overall_score in the second compare_audits
inline_percentage_change(before, after) ==
    percentage_of(after - before, Max(before, 1))

CalcPercentageChange ==
    Return("calculate_percentage_change", calculate_percentage_change(arg[1], arg[2]))

CompareAudits == Return("compare_audits", inline_percentage_change(arg[1], arg[2]))

InitCompare ==
    /\ services = <<>>
    /\ pc = "ready"
    /\ ret = <<>>
    /\ fn \in {"calculate_percentage_change", "compare_audits"}
    /\ arg \in (0..MaxScore) \X (0..MaxScore)

NextCompare ==
    \/ CalcPercentageChange
    \/ CompareAudits

SpecCompare == InitCompare /\ [][NextCompare]_vars

\* C30: for all scores before, after in 0..100 the inline formula of the second
\* compare_audits gives the change_percentage that calculate_percentage_change
\* gives, and the sign of either result is the sign of after - before (no
\* division by zero: both results are defined).
C30_SamePercentageChange ==
    (pc = "done" /\ fn \in {"calculate_percentage_change", "compare_audits"}) =>
        /\ ret = calculate_percentage_change(arg[1], arg[2])
        /\ ret.sign = Sign(arg[2] - arg[1])

\* C29: only successful audits are cached: every entry stored under an
\* audit:<domain> cache key has status 'completed', so a domain whose previous
\* audit failed is audited again instead of being answered from the cache.
C29_OnlyCompletedAuditsCached ==
    \A cache_key \in DOMAIN services.cache :
        services.cache[cache_key].response_data.status = "completed"

(***************************************************************************)
(* Concurrent requests of one user.  Every request is a coroutine that     *)
(* can be suspended at each awaited service call; the steps below are the  *)
(* database operations of verify_scan_quota and audit_visibility, taken in *)
(* program order by each request and interleaved between requests.  pc,    *)
(* arg and ret are per request; arg holds the locals of the coroutine.     *)
(* The scraper call and the three writes after it touch no profile and     *)
(* are one step.                                                           *)
(***************************************************************************)
MaxRequests == 3

RequestIds == 1..MaxRequests

ConcurrentDomains == {Url(""), Url("https")}

ConcurrentOutcomes(domain) ==
    {[raises |-> FALSE,
      audit_results |-> audit_website([r EXCEPT !.url = domain])] :
        r \in {Request(Url("https"), "none", Response(200, 0, 100), EmptyPage,
                       Probes(TRUE, TRUE), 0)}}
    \cup {[raises |-> TRUE, message |-> <<"Read ", "timeout">>]}

InitConcurrent ==
    /\ fn = "audit_visibility"
    /\ pc = [r \in RequestIds |-> "arrived"]
    /\ arg = [r \in RequestIds |-> <<>>]
    /\ ret = [r \in RequestIds |-> <<>>]
    /\ services = [cache |-> <<>>, scans |-> <<>>, audit_results |-> <<>>,
                   profile |-> [scans_used |-> 0, scans_remaining |-> MaxScans],
                   calls |-> [audit_website |-> 0, create_scan |-> 0, update_scan |-> 0,
                              create_audit_result |-> 0, update_scan_usage |-> 0,
                              cache_set |-> 0],
                   clock |-> 0]

\* request r moves to a position with new locals
Goto(r, position, locals) ==
    /\ pc' = [pc EXCEPT ![r] = position]
    /\ arg' = [arg EXCEPT ![r] = locals @@ arg[r]]

\* verify_scan_quota: the profile is read and tested
VerifyScanQuota ==
    \E r \in RequestIds :
       /\ pc[r] = "arrived"
       /\ \E domain \in ConcurrentDomains :
             \E scrape \in ConcurrentOutcomes(normalize_domain(domain)) :
                IF get_profile(services).scans_remaining <= 0
                THEN /\ Goto(r, "rejected", <<>>)
                     /\ ret' = [ret EXCEPT ![r] = [status_code |-> HTTP_403_FORBIDDEN,
                                                   body |-> <<>>]]
                ELSE /\ Goto(r, "cache_get", [domain |-> normalize_domain(domain),
                                              scrape |-> scrape,
                                              current_profile |-> get_profile(services)])
                     /\ UNCHANGED ret
       /\ UNCHANGED <<fn, services>>

\* cached_result = await cache_service.get(cache_key)
CacheGet ==
    \E r \in RequestIds :
       /\ pc[r] = "cache_get"
       /\ Goto(r, IF cache_get(services, arg[r].domain) # <<>>
                  THEN "get_profile" ELSE "create_scan",
               [cached_result |-> cache_get(services, arg[r].domain)])
       /\ UNCHANGED <<fn, ret, services>>

\* scan_id = await db_service.create_scan(...)
CreateScan ==
    \E r \in RequestIds :
       /\ pc[r] = "create_scan"
       /\ Goto(r, "get_profile", [scan_id |-> new_scan_id(services)])
       /\ services' = create_scan(services, arg[r].domain)
       /\ UNCHANGED <<fn, ret>>

\* update_scan_usage: profile = await self.get_profile(user_id)
GetProfile ==
    \E r \in RequestIds :
       /\ pc[r] = "get_profile"
       /\ Goto(r, "update_profile", [profile |-> get_profile(services)])
       /\ UNCHANGED <<fn, ret, services>>

\* update_scan_usage: the update of the row; a cache hit then returns
UpdateProfile ==
    \E r \in RequestIds :
       /\ pc[r] = "update_profile"
       /\ services' = write_scan_usage(services, arg[r].profile)
       /\ IF arg[r].cached_result # <<>>
          THEN /\ Goto(r, "responded", <<>>)
               /\ ret' = [ret EXCEPT ![r] =
                            [status_code |-> 200,
                             body |-> cached_response(arg[r].cached_result,
                                                      arg[r].current_profile,
                                                      services).body]]
          ELSE /\ Goto(r, "audit_website", <<>>)
               /\ UNCHANGED ret
       /\ UNCHANGED fn

\* the scraper call and what follows it
RunAudit ==
    \E r \in RequestIds :
       /\ pc[r] = "audit_website"
       /\ Goto(r, "responded", <<>>)
       /\ ret' = [ret EXCEPT ![r] =
                    [status_code |-> 200,
                     body |-> run_audit(arg[r].scan_id, arg[r].domain, arg[r].scrape,
                                        arg[r].current_profile,
                                        scraper_called(services)).body]]
       /\ services' = run_audit(arg[r].scan_id, arg[r].domain, arg[r].scrape,
                                arg[r].current_profile, scraper_called(services)).services
       /\ UNCHANGED fn

NextConcurrent ==
    \/ VerifyScanQuota
    \/ CacheGet
    \/ CreateScan
    \/ GetProfile
    \/ UpdateProfile
    \/ RunAudit

SpecConcurrent == InitConcurrent /\ [][NextConcurrent]_vars

\* the requests that have passed the quota check
Admitted == {r \in RequestIds : pc[r] \notin {"arrived", "rejected"}}

AllFinished == \A r \in RequestIds : pc[r] \in {"rejected", "responded"}

\* C28: for any interleaving of concurrent audit requests by one user who
\* starts with k scans remaining, at most k requests pass the quota check, and
\* when all have finished scans_used has grown by the number of admitted
\* requests, scans_remaining has shrunk by the same number, and scans_remaining
\* is never negative.
C28_QuotaHoldsUnderConcurrency ==
    /\ Cardinality(Admitted) <= MaxScans
    /\ services.profile.scans_remaining >= 0
    /\ AllFinished =>
          /\ services.profile.scans_used = Cardinality(Admitted)
          /\ services.profile.scans_remaining = MaxScans - Cardinality(Admitted)

====
